---- MODULE Spec2Model ----
(***************************************************************************)
(* Task-queue orchestration of the agents repository: the task store, the  *)
(* recurring-task Scheduler (runner/notion_scheduler.py), the Worker       *)
(* (runner/notion_worker.py), the Discord command bot that creates tasks,  *)
(* and the operator who writes and re-queues tasks by hand.                *)
(***************************************************************************)
EXTENDS Integers, Sequences, FiniteSets, TLC

\* ---------------------------------------------------------------- bounds
MaxTime == 1          \* the clock runs over 0..MaxTime
MaxRequeues == 1      \* times the operator re-queues a task
MaxMail == 2          \* times a command finds new items to hand on
MaxCalls == 2         \* API calls of the launchd panel under way at once
MaxPending == 2       \* requests of the log viewer under way for one log

\* ---------------------------------------------------------- configuration
PeriodLen == 1        \* period-window size of the Scheduler dedup, in ticks
NOTION_MAX_TASKS == 2 \* maximum batch size of one Worker invocation

NoTime == -1          \* a timestamp that is not set

Statuses == {"queued", "running", "done", "failed"}
RequestedByValues == {"discord", "notion", "manual", "system"}

\* Types suportados: type -> command template (the project is argument 2).
DispatchTable ==
  [posts_create |-> <<"agents/social-posts/scripts/generate_post.py">>,
   email_check  |-> <<"agents/email-triage/scripts/agent.py", "20", "--status", "unread">>,
   email_tasks_create |-> <<"agents/email-triage/scripts/create_tasks.py">>]

\* (variant: the task-creation step hands on again)
EnqueuesAgain(type) ==
  IF type \in {"email_check", "email_tasks_create"} THEN "email_tasks_create" ELSE ""

\* The type of the task a successful command of a type enqueues when it has
\* found new items ("" for none): the classification enqueues the creation
\* of the email tasks.
Enqueues(type) == IF type = "email_check" THEN "email_tasks_create" ELSE ""

KnownTypes == DOMAIN DispatchTable

\* (variant: the project is left out of the command line)
BuildCommandNoProject(type, project) == DispatchTable[type]

\* argument builder: <agent-command> <project> [extra args...]
BuildCommand(type, project) ==
  <<Head(DispatchTable[type]), project>> \o Tail(DispatchTable[type])

\* runner/notion_schedule.json: recurring entries, all daily.
EmailDaily == [type |-> "email_check", project |-> "acme"]
PostsDaily == [type |-> "posts_create", project |-> "acme"]

\* The bot's fixed table (domain, action) -> type.
typeMap ==
  [posts |-> [create |-> "posts_create"],
   email |-> [last |-> "email_check"]]

\* The table of the bot that knows the languages domain.
typeMapLanguages ==
  [posts |-> [create |-> "posts_create"],
   email |-> [last |-> "email_check"],
   languages |-> [refresh |-> "content_refresh", send |-> "lesson_send"]]

\* What people ask for: a chat command to the bot, or a page written into
\* the store by hand (lesson_correct has no entry in the dispatch table).
ChatPostsCreate == [via |-> "discord", author |-> "user", mentioned |-> TRUE,
   domain |-> "posts", action |-> "create",
   type |-> "", project |-> "acme"]
ChatEmailLast == [via |-> "discord", author |-> "user", mentioned |-> TRUE,
   domain |-> "email", action |-> "last",
   type |-> "", project |-> "acme"]
HandLessonCorrect == [via |-> "notion", author |-> "user", mentioned |-> FALSE,
   domain |-> "", action |-> "",
   type |-> "lesson_correct", project |-> "acme"]

\* Chat commands the bot rejects, and the commands of the languages domain
\* (the third word of "languages send" is the student).
ChatBadDomain == [via |-> "discord", author |-> "user", mentioned |-> TRUE,
   domain |-> "deploy", action |-> "create",
   type |-> "", project |-> "acme"]
ChatBadAction == [via |-> "discord", author |-> "user", mentioned |-> TRUE,
   domain |-> "posts", action |-> "last",
   type |-> "", project |-> "acme"]
ChatNoProject == [via |-> "discord", author |-> "user", mentioned |-> TRUE,
   domain |-> "email", action |-> "last",
   type |-> "", project |-> ""]
ChatAllBad == [via |-> "discord", author |-> "user", mentioned |-> TRUE,
   domain |-> "deploy", action |-> "",
   type |-> "", project |-> ""]
ChatBadActionNoProject == [via |-> "discord", author |-> "user", mentioned |-> TRUE,
   domain |-> "posts", action |-> "delete",
   type |-> "", project |-> ""]
ChatLanguagesRefresh == [via |-> "discord", author |-> "user", mentioned |-> TRUE,
   domain |-> "languages", action |-> "refresh",
   type |-> "", project |-> ""]
ChatLanguagesSend == [via |-> "discord", author |-> "user", mentioned |-> TRUE,
   domain |-> "languages", action |-> "send",
   type |-> "", project |-> "ana"]

\* Messages the bot does not answer: one written by a bot, one that does
\* not mention it.  A message with nothing after the mention, a command
\* for a project that has no folder, and a call for help.
ChatFromBot == [via |-> "discord", author |-> "bot", mentioned |-> TRUE,
   domain |-> "posts", action |-> "create",
   type |-> "", project |-> "acme"]
ChatUnmentioned == [via |-> "discord", author |-> "user", mentioned |-> FALSE,
   domain |-> "email", action |-> "last",
   type |-> "", project |-> "acme"]
ChatEmpty == [via |-> "discord", author |-> "user", mentioned |-> TRUE,
   domain |-> "", action |-> "",
   type |-> "", project |-> ""]
ChatGhostProject == [via |-> "discord", author |-> "user", mentioned |-> TRUE,
   domain |-> "posts", action |-> "create",
   type |-> "", project |-> "ghost"]
ChatHelp == [via |-> "discord", author |-> "user", mentioned |-> TRUE,
   domain |-> "help", action |-> "commands",
   type |-> "", project |-> ""]

\* The project folders on the disk of the bot.
Projects == {"acme"}

\* The bot of bots/discord-cmd-bot with the store configured, and the builds
\* of the bot with their environments.
Deployed == [version |-> "index", notion |-> TRUE]
Builds == [version : {"index", "part_004", "part_005"}, notion : BOOLEAN]

AllScheds == {1, 2}
AllWorkers == {1, 2}
\* launchd keeps one instance of a job alive at a time: invocations of the
\* Scheduler job follow one another, and so do those of the Worker job.
Scheds == {1}
Workers == {1}

VARIABLES
  tasks,     \* the store: sequence of task records, id = position
  spawned,   \* per task id: how many external processes were started for it
  now,       \* the clock
  schedule,  \* the recurring schedule entries the Scheduler reads
  inbox,     \* requests of people that have not been made yet
  bot,       \* pages the bot has created and not yet given their title
  replies,   \* the replies the bot has sent, each with its message
  mail,      \* how many more times a command will find new items to hand on
  script,    \* one call of the notifier script: its inputs and its position
  build,     \* the bot that is deployed: its version and its environment
  launchd,   \* the ids of the jobs the launchd API has
  panel,     \* the launchd panel: its state, form, dialogs and pending calls
  viewer,    \* the log viewer of the process panel
  sched,     \* per Scheduler instance: its position and locals
  worker,    \* per Worker instance: its position and locals
  okRuns,    \* Scheduler invocations run inside the current period without store error
  requeues,  \* how often the operator has re-queued a task
  skipSeen   \* a dedup skip has met a system task that was no longer queued

vars == <<tasks, spawned, now, schedule, inbox, bot, replies, mail, script, build, launchd,
          panel, viewer, sched, worker, okRuns, requeues, skipSeen>>

PeriodOf(t) == t \div PeriodLen

Min(a, b) == IF a < b THEN a ELSE b

\* ------------------------------------------------------ Task Store Client
\* Every call is a round trip that succeeds or fails with StoreWriteError.
StoreOutcomes == BOOLEAN

NewTask(name, type, project, requested_by, t) ==
  [name |-> name, status |-> "queued", type |-> type, project |-> project,
   payload |-> "", requested_by |-> requested_by, run_count |-> 0,
   created_at |-> t, started_at |-> NoTime, finished_at |-> NoTime,
   last_error |-> "", result |-> "", parent_task |-> 0]

\* create(fields) -> Task: the store appends the record and assigns the id.
Create(store, task) == Append(store, task)

\* update(id, fields) -> Task: only the named fields are written.
Update(store, id, fields) ==
  [store EXCEPT ![id] =
     [f \in DOMAIN store[id] |->
        IF f \in DOMAIN fields THEN fields[f] ELSE store[id][f]]]

Ids(store) == 1..Len(store)

IdSeq(n) == [i \in 1..n |-> i]

\* (variant: running tasks are listed again)
ListQueuedOrRunning(store) ==
  LET keep(i) == store[i].status \in {"queued", "running"}
  IN SelectSeq(IdSeq(Len(store)), keep)

\* (variant: failed tasks are listed again)
ListQueuedOrFailed(store) ==
  LET keep(i) == store[i].status \in {"queued", "failed"}
  IN SelectSeq(IdSeq(Len(store)), keep)

\* list(filter) with filter Status = queued: the matching ids in store order.
ListQueued(store) ==
  LET keep(i) == store[i].status = "queued"
  IN SelectSeq(IdSeq(Len(store)), keep)

\* (variant: the filter matches the project alone)
ListSystemByProject(store, type, project, t) ==
  LET keep(i) == /\ store[i].project = project
                 /\ store[i].requested_by = "system"
                 /\ PeriodOf(store[i].created_at) = PeriodOf(t)
  IN SelectSeq(IdSeq(Len(store)), keep)

\* (variant: the filter also asks for Status = queued)
ListSystemQueuedInPeriod(store, type, project, t) ==
  LET keep(i) == /\ store[i].type = type
                 /\ store[i].project = project
                 /\ store[i].requested_by = "system"
                 /\ store[i].status = "queued"
                 /\ PeriodOf(store[i].created_at) = PeriodOf(t)
  IN SelectSeq(IdSeq(Len(store)), keep)

\* (variant: the filter does not look at RequestedBy)
ListAnyInPeriod(store, type, project, t) ==
  LET keep(i) == /\ store[i].type = type
                 /\ store[i].project = project
                 /\ PeriodOf(store[i].created_at) = PeriodOf(t)
  IN SelectSeq(IdSeq(Len(store)), keep)

\* (variant: the filter has no period window)
ListSystemAnyPeriod(store, type, project, t) ==
  LET keep(i) == /\ store[i].type = type
                 /\ store[i].project = project
                 /\ store[i].requested_by = "system"
  IN SelectSeq(IdSeq(Len(store)), keep)

\* list(filter) of the Scheduler dedup: same type+project, RequestedBy =
\* system, created within the period window that contains t.  The status of
\* the task is not part of the filter.
ListSystemInPeriod(store, type, project, t) ==
  LET keep(i) == /\ store[i].type = type
                 /\ store[i].project = project
                 /\ store[i].requested_by = "system"
                 /\ PeriodOf(store[i].created_at) = PeriodOf(t)
  IN SelectSeq(IdSeq(Len(store)), keep)

\* ------------------------------------------------------------- Scheduler
SchedIdle == [pc |-> "idle", idx |-> 1, started |-> NoTime, exit |-> "none"]

\* An invocation reads the schedule entries.
SchedulerRead(s) ==
  /\ sched[s].pc = "idle"
  /\ sched' = [sched EXCEPT ![s] =
                 [SchedIdle EXCEPT !.pc = "query", !.started = now]]
  /\ UNCHANGED <<tasks, spawned, now, schedule, inbox, bot, replies, mail, script, build, launchd, panel, viewer, worker, okRuns, requeues, skipSeen>>

\* An invocation starts when launchd finds no other running.
SchedulerStart(s) ==
  /\ \A o \in AllScheds : sched[o].pc = "idle"
  /\ SchedulerRead(s)

\* The invocation ends and hands its exit status to the caller.
SchedEnd(exit) == [SchedIdle EXCEPT !.exit = exit]

\* okRuns counts the invocations that ran inside the current period and
\* ended without a store error.
CountOk(s) ==
  IF PeriodOf(sched[s].started) = PeriodOf(now) THEN Min(2, okRuns + 1) ELSE okRuns

\* On to the next entry, or the end of the invocation after the last one.
SchedAdvance(s) ==
  IF sched[s].idx = Len(schedule)
  THEN /\ sched' = [sched EXCEPT ![s] = SchedEnd("ok")]
       /\ okRuns' = CountOk(s)
  ELSE /\ sched' = [sched EXCEPT ![s].idx = @ + 1, ![s].pc = "query"]
       /\ UNCHANGED okRuns

\* Step 2: the dedup query for the current entry.  A task found means skip.
SchedulerQuery(s) ==
  /\ sched[s].pc = "query"
  /\ LET e == schedule[sched[s].idx]
         found == ListSystemInPeriod(tasks, e.type, e.project, now)
     IN \E storeOk \in StoreOutcomes :
          IF ~storeOk
          THEN /\ sched' = [sched EXCEPT ![s] = SchedEnd("store_error")]
               /\ UNCHANGED <<okRuns, skipSeen>>
          ELSE IF found = <<>>
          THEN /\ sched' = [sched EXCEPT ![s].pc = "create"]
               /\ UNCHANGED <<okRuns, skipSeen>>
          ELSE /\ SchedAdvance(s)
               /\ skipSeen' = (skipSeen \/ tasks[Head(found)].status # "queued")
  /\ UNCHANGED <<tasks, spawned, now, schedule, inbox, bot, replies, mail, script, build, launchd, panel, viewer, worker, requeues>>

\* (variant: the store creates only when the dedup query still finds none)
CreateSystemTaskIfNone(store, e, t) ==
  IF ListSystemInPeriod(store, e.type, e.project, t) = <<>>
  THEN Create(store, NewTask("plain", e.type, e.project, "system", t))
  ELSE store

\* The create of the Scheduler: a call of its own, after the query.
CreateSystemTask(store, e, t) ==
  Create(store, NewTask("plain", e.type, e.project, "system", t))

\* Step 3: no system task for the period: create a queued one.
SchedulerCreate(s) ==
  /\ sched[s].pc = "create"
  /\ LET e == schedule[sched[s].idx]
     IN \E storeOk \in StoreOutcomes :
          IF ~storeOk
          THEN /\ sched' = [sched EXCEPT ![s] = SchedEnd("store_error")]
               /\ UNCHANGED <<tasks, spawned, okRuns>>
          ELSE /\ tasks' = CreateSystemTask(tasks, e, now)
               /\ spawned' = [i \in Ids(tasks') |-> IF i \in Ids(tasks) THEN spawned[i] ELSE 0]
               /\ SchedAdvance(s)
  /\ UNCHANGED <<now, schedule, inbox, bot, replies, mail, script, build, launchd, panel, viewer, worker, requeues, skipSeen>>

\* ---------------------------------------------------------------- Worker
WorkerIdle == [pc |-> "idle", batch |-> <<>>, idx |-> 1, outcome |-> "none",
               argv |-> <<>>, note |-> "none", exit |-> "none"]

\* (variant: the invocation swallows the error and reports success)
WorkerEndSwallows(exit) == [WorkerIdle EXCEPT !.exit = "ok"]

\* The invocation ends and hands its exit status to the caller.
WorkerEnd(exit) == [WorkerIdle EXCEPT !.exit = exit]

\* (variant: the batch is one task short)
TruncateOneShort(ids) == SubSeq(ids, 1, Min(Len(ids), NOTION_MAX_TASKS) - 1)

\* (variant: the newest tasks first)
TruncateNewestFirst(ids) ==
  [k \in 1..Min(Len(ids), NOTION_MAX_TASKS) |-> ids[Len(ids) + 1 - k]]

\* (variant: the whole list is the batch)
TruncateNone(ids) == ids

\* Step 1: truncate the listed ids to the maximum batch size.
Truncate(ids) == SubSeq(ids, 1, Min(Len(ids), NOTION_MAX_TASKS))

\* The batch keeps, for every listed task, the fields the list call returned.
Snapshot(store, ids) ==
  [k \in 1..Len(ids) |-> [id |-> ids[k], run_count |-> store[ids[k]].run_count]]

\* (variant: the claim does not write the status)
ClaimWithoutStatus(listed_run_count, t) ==
  [started_at |-> t, run_count |-> listed_run_count + 1]

\* (variant: the claim writes the run count it listed)
ClaimKeepsRunCount(listed_run_count, t) ==
  [status |-> "running", started_at |-> t, run_count |-> listed_run_count]

\* Step 2: the claim update.
ClaimFields(listed_run_count, t) ==
  [status |-> "running", started_at |-> t, run_count |-> listed_run_count + 1]

\* Step 3: the dispatch-table lookup.
Resolve(type) == IF type \in KnownTypes THEN "command" ELSE "dispatch_error"

\* What the blocking call of the command returns: an exit code, or the
\* timeout that aborted it.
CommandOutcomes == {"exit_0", "exit_nonzero", "timeout"}

\* (variant: a dispatch error carries no message)
ErrorMessageBlankDispatch(outcome) ==
  CASE outcome = "timeout"        -> "timeout"
    [] outcome = "exit_nonzero"   -> "exit_code"
    [] OTHER                      -> ""

ErrorMessage(outcome) ==
  CASE outcome = "timeout"        -> "timeout"
    [] outcome = "exit_nonzero"   -> "exit_code"
    [] outcome = "dispatch_error" -> "unknown_type"
    [] OTHER                      -> ""

\* (variant: a timeout is recorded without FinishedAt)
FinalFieldsTimeoutUnfinished(outcome, t) ==
  IF outcome = "exit_0"
  THEN [status |-> "done", finished_at |-> t, result |-> "output"]
  ELSE IF outcome = "timeout"
  THEN [status |-> "failed", last_error |-> "timeout"]
  ELSE [status |-> "failed", finished_at |-> t, last_error |-> ErrorMessage(outcome)]

\* (variant: the captured stderr is written on success too)
FinalFieldsErrorOnSuccess(outcome, t) ==
  IF outcome = "exit_0"
  THEN [status |-> "done", finished_at |-> t, result |-> "output",
        last_error |-> "stderr"]
  ELSE [status |-> "failed", finished_at |-> t, last_error |-> ErrorMessage(outcome)]

\* (variant: the output reference is written into Payload)
FinalFieldsOutputInPayload(outcome, t) ==
  IF outcome = "exit_0"
  THEN [status |-> "done", finished_at |-> t, payload |-> "output"]
  ELSE [status |-> "failed", finished_at |-> t, last_error |-> ErrorMessage(outcome)]

\* (variant: the update of a failure does not write the status)
FinalFieldsFailureKeepsStatus(outcome, t) ==
  IF outcome = "exit_0"
  THEN [status |-> "done", finished_at |-> t, result |-> "output"]
  ELSE [finished_at |-> t, last_error |-> ErrorMessage(outcome)]

\* Steps 4 and 5: the final update.
FinalFields(outcome, t) ==
  IF outcome = "exit_0"
  THEN [status |-> "done", finished_at |-> t, result |-> "output"]
  ELSE [status |-> "failed", finished_at |-> t, last_error |-> ErrorMessage(outcome)]

\* (variant: a failed task ends the batch)
BatchNextStopOnFailure(outcome, idx, n) ==
  IF idx = n \/ outcome # "exit_0" THEN "idle" ELSE "claim"

\* After the final update of task idx of n: the next task, or the end.
BatchNext(outcome, idx, n) == IF idx = n THEN "idle" ELSE "claim"

\* ---------------------------------------------------------------- Notifier
\* integrations/discord/notify_discord.sh: one network attempt; exit status 0
\* when the service answers 2xx, 1 otherwise.
Notify(delivered) == IF delivered THEN 0 ELSE 1

\* The answers to the one request of the script: the HTTP status, 0 when
\* curl got none and failed.
Responses == {200, 204, 301, 404, 500, 0}

\* [[ "$http_code" != 2* ]]
Is2xx(code) == code \div 100 = 2

\* The exit status of curl, which fails only when it gets no answer.
CurlExit(code) == IF code = 0 THEN 7 ELSE 0

\* (variant: after a failed post to the channel the webhook is tried)
AfterErrorTriesWebhook(target) == IF target = "channel" THEN "webhook" ELSE "exited"

\* Where the script goes after an answer that is not 2xx: exit 1.
AfterError(target) == "exited"

\* One call of the script with its env file there or not, its first argument
\* and its message given or not, and the credentials the env file sets.
ScriptCall ==
  /\ script.pc = "idle"
  /\ \E env, channel, msg, token, webhook \in BOOLEAN :
       script' = [pc |-> "env", env |-> env, channel |-> channel,
                  content |-> IF msg THEN "message" ELSE "default",
                  token |-> env /\ token, webhook |-> env /\ webhook,
                  requests |-> <<>>, code |-> 0, exit |-> -1]
  /\ UNCHANGED <<tasks, spawned, now, schedule, inbox, bot, replies, mail, build, launchd, panel, viewer,
                 sched, worker, okRuns, requeues, skipSeen>>

ScriptExit(status) == script' = [script EXCEPT !.pc = "exited", !.exit = status]

\* Lines 7-22: the env file and the first argument.
ScriptLoad ==
  /\ script.pc = "env"
  /\ IF ~script.env \/ ~script.channel
     THEN ScriptExit(1)
     ELSE script' = [script EXCEPT !.pc = "payload"]
  /\ UNCHANGED <<tasks, spawned, now, schedule, inbox, bot, replies, mail, build, launchd, panel, viewer,
                 sched, worker, okRuns, requeues, skipSeen>>

\* Lines 24-30: the JSON payload, made by python3; under set -e the script
\* ends when that fails.
ScriptPayload ==
  /\ script.pc = "payload"
  /\ \E made \in BOOLEAN :
       IF made THEN script' = [script EXCEPT !.pc = "token"]
       ELSE ScriptExit(1)
  /\ UNCHANGED <<tasks, spawned, now, schedule, inbox, bot, replies, mail, build, launchd, panel, viewer,
                 sched, worker, okRuns, requeues, skipSeen>>

\* Lines 32-41: with DISCORD_TOKEN, one POST to the channel.
ScriptToken ==
  /\ script.pc = "token"
  /\ IF script.token
     THEN \E code \in Responses :
            script' = [script EXCEPT !.pc = "check", !.code = code,
                                     !.requests = Append(@, "channel")]
     ELSE script' = [script EXCEPT !.pc = "webhook"]
  /\ UNCHANGED <<tasks, spawned, now, schedule, inbox, bot, replies, mail, build, launchd, panel, viewer,
                 sched, worker, okRuns, requeues, skipSeen>>

\* Lines 52-64: without a webhook URL exit 1, else one POST to the webhook.
ScriptWebhook ==
  /\ script.pc = "webhook"
  /\ IF ~script.webhook
     THEN ScriptExit(1)
     ELSE \E code \in Responses :
            script' = [script EXCEPT !.pc = "check", !.code = code,
                                     !.requests = Append(@, "webhook")]
  /\ UNCHANGED <<tasks, spawned, now, schedule, inbox, bot, replies, mail, build, launchd, panel, viewer,
                 sched, worker, okRuns, requeues, skipSeen>>

\* Lines 42-49 and 65-71: a failed curl ends the script under set -e with
\* the status of curl; an answer that is not 2xx gives exit 1; else exit 0.
ScriptCheck ==
  /\ script.pc = "check"
  /\ LET target == script.requests[Len(script.requests)]
     IN IF CurlExit(script.code) # 0 THEN ScriptExit(CurlExit(script.code))
        ELSE IF Is2xx(script.code) THEN ScriptExit(0)
        ELSE script' = [script EXCEPT !.pc = AfterError(target), !.exit = 1]
  /\ UNCHANGED <<tasks, spawned, now, schedule, inbox, bot, replies, mail, build, launchd, panel, viewer,
                 sched, worker, okRuns, requeues, skipSeen>>

\* What the Worker logs about the call.
NoteOf(exitStatus) == IF exitStatus = 0 THEN "sent" ELSE "notifier_error"

\* (variant: a delivery failure counts as a failure of the task)
OutcomeAfterNotifyEscalates(outcome, exitStatus) ==
  IF exitStatus = 0 THEN outcome ELSE "exit_nonzero"

\* The outcome the Worker records for the task once the Notifier was called.
OutcomeAfterNotify(outcome, exitStatus) == outcome

\* The list call of an invocation: the queued tasks, the first ones kept.
WorkerList(w) ==
  /\ worker[w].pc = "idle"
  /\ \E storeOk \in StoreOutcomes :
       IF ~storeOk
       THEN worker' = [worker EXCEPT ![w] = WorkerEnd("store_error")]
       ELSE LET batch == Snapshot(tasks, Truncate(ListQueued(tasks)))
            IN worker' = [worker EXCEPT ![w] =
                 IF batch = <<>>
                 THEN WorkerEnd("ok")
                 ELSE [WorkerIdle EXCEPT !.pc = "claim", !.batch = batch]]
  /\ UNCHANGED <<tasks, spawned, now, schedule, inbox, bot, replies, mail, script, build, launchd, panel, viewer, sched, okRuns, requeues, skipSeen>>

\* An invocation starts when no other invocation of the job is running.
WorkerStart(w) ==
  /\ \A o \in AllWorkers : worker[o].pc = "idle"
  /\ WorkerList(w)

Current(w) == worker[w].batch[worker[w].idx]

\* Step 2: claim the next task of the batch.
WorkerClaim(w) ==
  /\ worker[w].pc = "claim"
  /\ \E storeOk \in StoreOutcomes :
       IF ~storeOk
       THEN /\ worker' = [worker EXCEPT ![w] = WorkerEnd("store_error")]
            /\ UNCHANGED tasks
       ELSE /\ tasks' = Update(tasks, Current(w).id,
                               ClaimFields(Current(w).run_count, now))
            /\ worker' = [worker EXCEPT ![w].pc = "run", ![w].note = "none"]
  /\ UNCHANGED <<spawned, now, schedule, inbox, bot, replies, mail, script, build, launchd, panel, viewer, sched, okRuns, requeues, skipSeen>>

\* Step 6: the task a command enqueues: queued, with the output path in
\* Payload and the task that caused it as its parent.
Enqueued(t, id, at) ==
  [NewTask("plain", Enqueues(t.type), t.project, "system", at)
     EXCEPT !.payload = "output", !.parent_task = id]

\* Step 3: resolve the type, build the command and run it to its end or to
\* the timeout; an unknown type is a DispatchError caught for this task, and
\* nothing is started.
WorkerRun(w) ==
  /\ worker[w].pc = "run"
  /\ LET t == tasks[Current(w).id]
     IN IF Resolve(t.type) = "command"
        THEN \E out \in CommandOutcomes, found \in BOOLEAN :
               /\ worker' = [worker EXCEPT ![w].pc = "final",
                                           ![w].outcome = out,
                                           ![w].argv = BuildCommand(t.type, t.project)]
               /\ IF found /\ out = "exit_0" /\ mail > 0 /\ Enqueues(t.type) # ""
                  THEN /\ tasks' = Create(tasks, Enqueued(t, Current(w).id, now))
                       /\ spawned' = Append([spawned EXCEPT ![Current(w).id] = @ + 1], 0)
                       /\ mail' = mail - 1
                  ELSE /\ spawned' = [spawned EXCEPT ![Current(w).id] = @ + 1]
                       /\ UNCHANGED <<tasks, mail>>
        ELSE /\ worker' = [worker EXCEPT ![w].pc = "final",
                                         ![w].outcome = "dispatch_error"]
             /\ UNCHANGED <<tasks, spawned, mail>>
  /\ UNCHANGED <<now, schedule, inbox, bot, replies, script, build, launchd, panel, viewer, sched, okRuns, requeues, skipSeen>>

\* Whether the completion of a task is announced: a dispatch-table hit.
Announces(outcome) == outcome # "dispatch_error"

\* (variant: the tasks queued since the list call join the batch)
BatchRelisted(batch, store) ==
  LET listed == {batch[k].id : k \in 1..Len(batch)}
      fresh(i) == store[i].status = "queued" /\ i \notin listed
  IN batch \o Snapshot(store, SelectSeq(IdSeq(Len(store)), fresh))

\* The batch the invocation goes on with: the one of its list call.
BatchKept(batch, store) == batch

\* Steps 4 and 5: announce the completion, record the outcome, then go on
\* with the batch.
WorkerFinish(w) ==
  /\ worker[w].pc = "final"
  /\ \E storeOk \in StoreOutcomes, delivered \in BOOLEAN :
       LET called == Announces(worker[w].outcome)
           outcome == IF called
                      THEN OutcomeAfterNotify(worker[w].outcome, Notify(delivered))
                      ELSE worker[w].outcome
           note == IF called THEN NoteOf(Notify(delivered)) ELSE "none"
       IN IF ~storeOk
          THEN /\ worker' = [worker EXCEPT ![w] = WorkerEnd("store_error")]
               /\ UNCHANGED tasks
          ELSE LET after == Update(tasks, Current(w).id, FinalFields(outcome, now))
                   batch == BatchKept(worker[w].batch, after)
               IN /\ tasks' = after
                  /\ worker' = [worker EXCEPT ![w] =
                       IF BatchNext(outcome, worker[w].idx, Len(batch)) = "idle"
                       THEN WorkerEnd("ok")
                       ELSE [worker[w] EXCEPT !.pc = "claim", !.idx = @ + 1,
                                              !.batch = batch,
                                              !.outcome = "none", !.argv = <<>>,
                                              !.note = note]]
  /\ UNCHANGED <<spawned, now, schedule, inbox, bot, replies, mail, script, build, launchd, panel, viewer, sched, okRuns, requeues, skipSeen>>

\* ------------------------------------------------------- external actors
\* The checks of the handler, in its order: the first that fails decides the
\* reply, and the handler returns.
allowedDomains == {"posts", "email"}

allowedActions == [posts |-> {"create"}, email |-> {"last"}]

\* (variant: the project is checked before the action)
ValidateProjectFirst(msg) ==
  IF msg.domain = "" THEN "incomplete"
  ELSE IF msg.domain \notin allowedDomains THEN "invalid_domain"
  ELSE IF msg.project = "" THEN "missing_project"
  ELSE IF msg.action \notin allowedActions[msg.domain] THEN "invalid_action"
  ELSE "ok"

Validate(msg) ==
  IF msg.domain = "" THEN "incomplete"
  ELSE IF msg.domain \notin allowedDomains THEN "invalid_domain"
  ELSE IF msg.action \notin allowedActions[msg.domain] THEN "invalid_action"
  ELSE IF msg.project = "" THEN "missing_project"
  ELSE "ok"

allowedDomainsLanguages == {"posts", "email", "languages"}

allowedActionsLanguages ==
  [posts |-> {"create"}, email |-> {"last"}, languages |-> {"refresh", "send"}]

\* (variant: any project that is named counts as there)
projectNamed(domain, project) == project # ""

projectExists(domain, project) ==
  /\ project # ""
  /\ domain \in {"posts", "email"}
  /\ project \in Projects

\* The checks of the handler that knows the languages domain: help is
\* answered first, and the commands of languages take no project.
ValidateLanguages(msg) ==
  IF msg.domain = "" THEN "incomplete"
  ELSE IF msg.domain = "help"
       THEN (IF msg.action = "commands" THEN "help_commands"
             ELSE IF msg.action = "projects" THEN "help_projects"
             ELSE "invalid_help")
  ELSE IF msg.domain \notin allowedDomainsLanguages THEN "invalid_domain"
  ELSE IF msg.action \notin allowedActionsLanguages[msg.domain] THEN "invalid_action"
  ELSE IF msg.domain # "languages" /\ msg.project = "" THEN "missing_project"
  ELSE IF msg.domain # "languages" /\ ~projectExists(msg.domain, msg.project)
       THEN "unknown_project"
  ELSE "ok"

Table(b) == IF b.version = "part_004" THEN typeMapLanguages ELSE typeMap

\* (variant: the action is not looked up, the first type of the domain is taken)
TypeOfAnyAction(table, msg) ==
  IF msg.domain \in DOMAIN table
  THEN table[msg.domain][CHOOSE a \in DOMAIN table[msg.domain] : TRUE]
  ELSE ""

\* typeMap?.[domain]?.[action], "" when the table has no entry.
TypeOf(table, msg) ==
  IF msg.domain \in DOMAIN table /\ msg.action \in DOMAIN table[msg.domain]
  THEN table[msg.domain][msg.action]
  ELSE ""

\* The whole of the handler before the create: the checks of the command,
\* the store configuration, the table, and the student of "languages send".
Verdict(b, msg) ==
  LET checks == IF b.version = "part_004" THEN ValidateLanguages(msg)
                ELSE Validate(msg)
  IN IF checks # "ok" THEN checks
     ELSE IF ~b.notion THEN "not_configured"
     ELSE IF TypeOf(Table(b), msg) = "" THEN "invalid_action"
     ELSE IF /\ b.version = "part_004"
             /\ msg.domain = "languages" /\ msg.action = "send"
             /\ msg.project = ""
          THEN "missing_student"
     ELSE "ok"

\* The page the bot asks the store to create.
Request(b, msg, t) ==
  IF b.version = "part_004" /\ msg.domain = "languages"
  THEN [NewTask("plain", TypeOf(Table(b), msg), "languages", "discord", t)
          EXCEPT !.payload = IF msg.action = "send" THEN "student" ELSE ""]
  ELSE NewTask("plain", TypeOf(Table(b), msg), msg.project, "discord", t)

\* msg.reply: the reply is sent, numbered among the replies to its message.
Send(sent, msg, reply) ==
  sent \cup {<<msg, reply, Cardinality({r \in sent : r[1] = msg}) + 1>>}

\* (variant: a message that does not mention the bot is handled too)
HandlesIfAddressed(msg) == msg.author # "bot"

\* The handler goes on for a message that no bot wrote and that mentions
\* the bot.
Handles(msg) == msg.author # "bot" /\ msg.mentioned

\* Any other message: the handler returns at once.
BotIgnore(msg) ==
  /\ msg \in inbox
  /\ msg.via = "discord"
  /\ ~Handles(msg)
  /\ inbox' = inbox \ {msg}
  /\ UNCHANGED <<tasks, spawned, now, schedule, bot, replies, mail, script, build, launchd, panel, viewer,
                 sched, worker, okRuns, requeues, skipSeen>>

\* A command that fails a check gets the reply of that check, and the store
\* is not called.
BotReject(msg) ==
  /\ msg \in inbox
  /\ msg.via = "discord"
  /\ Handles(msg)
  /\ Verdict(build, msg) # "ok"
  /\ inbox' = inbox \ {msg}
  /\ replies' = Send(replies, msg, Verdict(build, msg))
  /\ UNCHANGED <<tasks, spawned, now, schedule, bot, mail, script, build, launchd, panel, viewer, sched, worker,
                 okRuns, requeues, skipSeen>>

\* What the POST of the create comes to: the page, a refusal of the store,
\* or a request that threw.
PostOutcomes == {"ok", "refused", "threw"}

\* (variant: the success reply is sent whatever the POST came to)
PostReplyAlwaysCreated(post) == "created"

\* The reply after a POST that created no page.
PostReply(post) ==
  CASE post = "refused" -> "create_failed"
    [] post = "threw"   -> "create_error"
    [] OTHER            -> "created"

\* The replies sent when the POST is made: the older handler has told the
\* user "Task criada no Notion" before it calls the store.
SentBeforePost(b, sent, msg) ==
  IF b.version = "part_005" THEN Send(sent, msg, "created_early") ELSE sent

\* The reply after a POST that returned the page.
SuccessReply(b) == IF b.version = "part_005" THEN "enqueued" ELSE "created"

\* The Discord bot: a valid command creates a queued task (POST).  A create
\* the store refuses leaves no task.  A page without a unique ID gets the
\* success reply at once, and so does every page of the bot that knows the
\* languages domain, which rewrites no Name.
BotCreate(msg) ==
  /\ msg \in inbox
  /\ msg.via = "discord"
  /\ Handles(msg)
  /\ Verdict(build, msg) = "ok"
  /\ inbox' = inbox \ {msg}
  /\ \E post \in PostOutcomes,
        ticket \in IF build.version = "index" THEN BOOLEAN ELSE {FALSE} :
       LET sent == SentBeforePost(build, replies, msg)
       IN IF post # "ok"
          THEN /\ replies' = Send(sent, msg, PostReply(post))
               /\ UNCHANGED <<tasks, spawned, bot>>
          ELSE /\ tasks' = Create(tasks, Request(build, msg, now))
               /\ spawned' = Append(spawned, 0)
               /\ bot' = IF ticket
                         THEN bot \cup {[page |-> Len(tasks) + 1, msg |-> msg]}
                         ELSE bot
               /\ replies' = IF ticket THEN sent
                             ELSE Send(sent, msg, SuccessReply(build))
  /\ UNCHANGED <<now, schedule, mail, script, build, launchd, panel, viewer, sched, worker, okRuns, requeues, skipSeen>>

\* (variant: the PATCH sends the Status of the create payload again)
TitleFieldsWithStatus(ticket) == [name |-> "titled", status |-> "queued"]

\* (variant: the PATCH sends a RunCount of 0 with the Name)
TitleFieldsWithRunCount(ticket) == [name |-> "titled", run_count |-> 0]

\* The fields of the bot's PATCH: the Name alone.
TitleFields(ticket) == [name |-> "titled"]

BotPages == {b.page : b \in bot}

\* The handler goes on after the POST: the page carries a unique ID, and the
\* bot rewrites its Name.  A PATCH that fails is reported and changes
\* nothing.  Then the success reply is sent.
BotTitle(page) ==
  /\ \E b \in bot :
       /\ b.page = page
       /\ bot' = bot \ {b}
       /\ replies' = Send(replies, b.msg, "created")
  /\ \E patchOk \in BOOLEAN :
       tasks' = IF patchOk THEN Update(tasks, page, TitleFields(page)) ELSE tasks
  /\ UNCHANGED <<spawned, now, schedule, inbox, mail, script, build, launchd, panel, viewer, sched, worker,
                 okRuns, requeues, skipSeen>>

\* A person writes a queued task into the store by hand.
ManualCreate(req) ==
  /\ req \in inbox
  /\ req.via \in {"manual", "notion"}
  /\ inbox' = inbox \ {req}
  /\ tasks' = Create(tasks, NewTask("plain", req.type, req.project, req.via, now))
  /\ spawned' = Append(spawned, 0)
  /\ UNCHANGED <<now, schedule, bot, replies, mail, script, build, launchd, panel, viewer, sched, worker, okRuns,
                 requeues, skipSeen>>

HeldByWorker(i) ==
  \E w \in AllWorkers : worker[w].pc # "idle" /\ Current(w).id = i

\* The operator re-queues a finished task, or one left running by an
\* invocation that is gone.
OperatorRequeue(i) ==
  /\ i \in Ids(tasks)
  /\ requeues < MaxRequeues
  /\ \/ tasks[i].status \in {"done", "failed"}
     \/ tasks[i].status = "running" /\ ~HeldByWorker(i)
  /\ tasks' = Update(tasks, i, [status |-> "queued"])
  /\ requeues' = requeues + 1
  /\ UNCHANGED <<spawned, now, schedule, inbox, bot, replies, mail, script, build, launchd, panel, viewer, sched, worker, okRuns, skipSeen>>

\* Time passes; a new period starts with no Scheduler invocation counted.
Tick ==
  /\ now < MaxTime
  /\ now' = now + 1
  /\ okRuns' = IF PeriodOf(now + 1) = PeriodOf(now) THEN okRuns ELSE 0
  /\ UNCHANGED <<tasks, spawned, schedule, inbox, bot, replies, mail, script, build, launchd, panel, viewer, sched, worker, requeues, skipSeen>>

\* The log files the process panel lists.
Logs == {"worker.log", "scheduler.log"}

\* --------------------------------------------------------- launchd panel
\* Everything the panels leave alone.
Backend ==
  <<tasks, spawned, now, schedule, inbox, bot, replies, mail, script, build,
    sched, worker, okRuns, requeues, skipSeen>>

PanelJobs == {"a", "b"}

\* A filename is its stem and its extension.
endsWith(name, suffix) == Len(name) > 0 /\ name[Len(name)] = suffix

\* elements.form after form.reset().
FormBlank ==
  [label |-> "", filename |-> <<>>, scheduleType |-> "none",
   scheduleDays |-> {}, scheduleValue |-> ""]

\* startEdit: the form filled with the fields of the job.
FormOf(id) == [FormBlank EXCEPT !.label = id, !.filename = <<id, ".plist">>]

\* What the user may have typed into the form.
Forms ==
  {FormBlank, FormOf("a"), FormOf("b"),
   [FormOf("b") EXCEPT !.filename = <<"b", ".txt">>],
   [FormOf("b") EXCEPT !.scheduleType = "weekly", !.scheduleValue = "09:00"],
   [FormOf("b") EXCEPT !.scheduleType = "weekly", !.scheduleDays = {1}],
   [FormOf("b") EXCEPT !.scheduleType = "weekly", !.scheduleDays = {1},
                       !.scheduleValue = "09:00"]}

\* jobFromForm: the days count for a weekly schedule only, the value for
\* any schedule but none.
jobFromForm(form) ==
  [id |-> form.label, label |-> form.label, filename |-> form.filename,
   scheduleType |-> form.scheduleType,
   scheduleValue |-> IF form.scheduleType = "none" THEN "" ELSE form.scheduleValue,
   scheduleDays |-> IF form.scheduleType = "weekly" THEN form.scheduleDays ELSE {}]

\* (variant: a weekly schedule is not asked for its days)
FormAlertNoDays(job) ==
  IF job.label = "" THEN "label"
  ELSE IF ~endsWith(job.filename, ".plist") THEN "filename"
  ELSE IF job.scheduleType = "weekly" /\ job.scheduleValue = "" THEN "time"
  ELSE "none"

\* The checks of handleSubmit in their order: the alert of the first that
\* fails.
FormAlert(job) ==
  IF job.label = "" THEN "label"
  ELSE IF ~endsWith(job.filename, ".plist") THEN "filename"
  ELSE IF job.scheduleType = "weekly" /\ job.scheduleDays = {} THEN "weekday"
  ELSE IF job.scheduleType = "weekly" /\ job.scheduleValue = "" THEN "time"
  ELSE "none"

ListCall == [op |-> "list", id |-> "", label |-> ""]

\* init(): the first refresh is under way.
PanelInit ==
  [jobs |-> {}, selectedId |-> "null", editingId |-> "null", detail |-> "null",
   form |-> FormBlank, alert |-> "none", asked |-> "none", calls |-> {ListCall}]

\* The user types into the form.
PanelType(form) ==
  /\ form \in Forms
  /\ form # panel.form
  /\ panel' = [panel EXCEPT !.form = form, !.alert = "none", !.asked = "none"]
  /\ UNCHANGED <<launchd, viewer>>
  /\ UNCHANGED Backend

\* selectJob, from a card of the list.
PanelSelect(id) ==
  /\ id \in panel.jobs
  /\ panel' = [panel EXCEPT !.selectedId = id, !.detail = id,
                            !.alert = "none", !.asked = "none"]
  /\ UNCHANGED <<launchd, viewer>>
  /\ UNCHANGED Backend

\* startEdit, from the button of the detail pane.
PanelEdit ==
  /\ panel.detail # "null"
  /\ panel' = [panel EXCEPT !.editingId = panel.detail,
                            !.form = FormOf(panel.detail),
                            !.alert = "none", !.asked = "none"]
  /\ UNCHANGED <<launchd, viewer>>
  /\ UNCHANGED Backend

\* resetForm, from the reset button or the new-job button.
PanelReset ==
  /\ panel' = [panel EXCEPT !.editingId = "null", !.form = FormBlank,
                            !.alert = "none", !.asked = "none"]
  /\ UNCHANGED <<launchd, viewer>>
  /\ UNCHANGED Backend

\* The refresh button.
PanelRefresh ==
  /\ Cardinality(panel.calls) < MaxCalls
  /\ panel' = [panel EXCEPT !.calls = @ \cup {ListCall},
                            !.alert = "none", !.asked = "none"]
  /\ UNCHANGED <<launchd, viewer>>
  /\ UNCHANGED Backend

\* refresh, when api.list returns: the list and the detail pane are drawn
\* again; on an error the detail pane shows the error.
PanelListed ==
  /\ ListCall \in panel.calls
  /\ \E ok \in BOOLEAN :
       panel' = [panel EXCEPT
         !.calls = @ \ {ListCall},
         !.alert = "none", !.asked = "none",
         !.jobs = IF ok THEN launchd ELSE @,
         !.detail = IF ok /\ panel.selectedId \in launchd
                    THEN panel.selectedId ELSE "null"]
  /\ UNCHANGED <<launchd, viewer>>
  /\ UNCHANGED Backend

\* confirmDelete up to api.remove, from a card or from the detail pane: a
\* job that is not in state.jobs, or a dialog that is cancelled, ends it.
PanelDelete(id) ==
  /\ id \in panel.jobs \/ id = panel.detail
  /\ Cardinality(panel.calls) < MaxCalls
  /\ IF id \notin panel.jobs
     THEN panel' = [panel EXCEPT !.alert = "none", !.asked = "none"]
     ELSE \E confirmed \in BOOLEAN :
            panel' = [panel EXCEPT
              !.alert = "none",
              !.asked = IF confirmed THEN "yes" ELSE "no",
              !.calls = IF confirmed
                        THEN @ \cup {[op |-> "remove", id |-> id, label |-> ""]}
                        ELSE @]
  /\ UNCHANGED <<launchd, viewer>>
  /\ UNCHANGED Backend

\* (variant: the selection is cleared whatever job was removed)
SelectedAfterRemoveAny(selectedId, id) == "null"

\* state.selectedId after a remove that succeeded.
SelectedAfterRemove(selectedId, id) == IF selectedId = id THEN "null" ELSE selectedId

\* confirmDelete, when api.remove returns: an error is shown and ends it;
\* else the selection is cleared if it was the job, and refresh is called.
PanelRemoved(c) ==
  /\ c \in panel.calls
  /\ c.op = "remove"
  /\ \E ok \in {c.id \in launchd, FALSE} :
       IF ~ok
       THEN /\ panel' = [panel EXCEPT !.calls = @ \ {c}, !.alert = "remove_failed",
                                      !.asked = "none"]
            /\ UNCHANGED launchd
       ELSE /\ launchd' = launchd \ {c.id}
            /\ panel' = [panel EXCEPT
                 !.calls = (@ \ {c}) \cup {ListCall},
                 !.selectedId = SelectedAfterRemove(@, c.id),
                 !.detail = IF panel.selectedId = c.id THEN "null" ELSE @,
                 !.alert = "none", !.asked = "none"]
  /\ UNCHANGED viewer
  /\ UNCHANGED Backend

\* handleSubmit up to the API call: the checks of the form, then an update
\* of the job being edited, or a create unless the label is in state.jobs.
PanelSubmit ==
  /\ Cardinality(panel.calls) < MaxCalls
  /\ LET job == jobFromForm(panel.form)
     IN IF FormAlert(job) # "none"
        THEN panel' = [panel EXCEPT !.alert = FormAlert(job), !.asked = "none"]
        ELSE IF panel.editingId # "null"
        THEN panel' = [panel EXCEPT
               !.alert = "none", !.asked = "none",
               !.calls = @ \cup {[op |-> "update", id |-> panel.editingId,
                                  label |-> job.id]}]
        ELSE IF job.id \in panel.jobs
        THEN panel' = [panel EXCEPT !.alert = "exists", !.asked = "none"]
        ELSE panel' = [panel EXCEPT
               !.alert = "none", !.asked = "none",
               !.calls = @ \cup {[op |-> "create", id |-> job.id,
                                  label |-> job.id]}]
  /\ UNCHANGED <<launchd, viewer>>
  /\ UNCHANGED Backend

\* handleSubmit, when api.create or api.update returns: an error is shown
\* and ends it; else resetForm and refresh.
PanelSaved(c) ==
  /\ c \in panel.calls
  /\ c.op \in {"create", "update"}
  /\ \E ok \in {IF c.op = "create" THEN c.id \notin launchd ELSE c.id \in launchd,
                 FALSE} :
       IF ~ok
       THEN /\ panel' = [panel EXCEPT !.calls = @ \ {c}, !.alert = "save_failed",
                                      !.asked = "none"]
            /\ UNCHANGED launchd
       ELSE /\ launchd' = (launchd \ {c.id}) \cup {c.label}
            /\ panel' = [panel EXCEPT
                 !.calls = (@ \ {c}) \cup {ListCall},
                 !.editingId = "null", !.form = FormBlank,
                 !.alert = "none", !.asked = "none"]
  /\ UNCHANGED viewer
  /\ UNCHANGED Backend

\* ---------------------------------------------------------- specification
ScriptIdle == [pc |-> "idle"]

\* openLogs has not been clicked.
ViewerInit ==
  [open |-> FALSE, currentLog |-> "null", title |-> "", content |-> "",
   logs |-> {}, list |-> "", listing |-> 0, pending |-> [l \in Logs |-> 0]]

\* openLogs: the modal opens and loadLogsList sends its request.
ViewerOpen ==
  /\ viewer.listing < MaxPending
  /\ viewer' = [viewer EXCEPT !.open = TRUE, !.list = "Carregando...",
                               !.listing = @ + 1]
  /\ UNCHANGED <<launchd, panel>>
  /\ UNCHANGED Backend

\* closeLogs.
ViewerClose ==
  /\ viewer.open
  /\ viewer' = [viewer EXCEPT !.open = FALSE]
  /\ UNCHANGED <<launchd, panel>>
  /\ UNCHANGED Backend

\* loadLogsList, when /api/logs returns: state.logs and the list shown, or
\* the error text.
ViewerListed ==
  /\ viewer.listing > 0
  /\ \/ \E listed \in SUBSET Logs :
          viewer' = [viewer EXCEPT
            !.listing = @ - 1,
            !.logs = listed,
            !.list = IF listed = {} THEN "Sem logs no momento." ELSE "items"]
     \/ viewer' = [viewer EXCEPT !.listing = @ - 1,
                                  !.list = "Erro ao carregar logs."]
  /\ UNCHANGED <<launchd, panel>>
  /\ UNCHANGED Backend

\* loadLogContent up to its fetch: nothing without a current log; else the
\* loading text is shown and the request for state.currentLog is sent.
LoadLogContent(v) ==
  IF v.currentLog = "null"
  THEN v
  ELSE [v EXCEPT !.content = "Carregando...",
                 !.pending[v.currentLog] = @ + 1]

\* selectLog(name), a click on an item of the list.
ViewerSelect(name) ==
  /\ viewer.open
  /\ viewer.list = "items"
  /\ name \in viewer.logs
  /\ viewer.pending[name] < MaxPending
  /\ viewer' = LoadLogContent([viewer EXCEPT !.currentLog = name,
                                              !.title = name])
  /\ UNCHANGED <<launchd, panel>>
  /\ UNCHANGED Backend

\* A click on the reload button, enabled by the first selectLog.
ViewerReload ==
  /\ viewer.open
  /\ viewer.currentLog # "null"
  /\ viewer.pending[viewer.currentLog] < MaxPending
  /\ viewer' = LoadLogContent(viewer)
  /\ UNCHANGED <<launchd, panel>>
  /\ UNCHANGED Backend

\* loadLogContent, when a request for the log name returns: its content
\* (the text for an empty one), or the error text, is shown.
ViewerLoaded(name) ==
  /\ viewer.pending[name] > 0
  /\ \E body \in {name, "", "error"} :
       viewer' = [viewer EXCEPT
         !.pending[name] = @ - 1,
         !.content = IF body = "error" THEN "Erro ao carregar log."
                     ELSE IF body = "" THEN "(vazio)"
                     ELSE body]
  /\ UNCHANGED <<launchd, panel>>
  /\ UNCHANGED Backend

InitBuild(entries, requests, letters, b) ==
  /\ build = b
  /\ launchd = {"a"}
  /\ panel = PanelInit
  /\ viewer = ViewerInit
  /\ tasks = <<>>
  /\ spawned = <<>>
  /\ now = 0
  /\ schedule = entries
  /\ inbox = requests
  /\ bot = {}
  /\ replies = {}
  /\ mail = letters
  /\ script = ScriptIdle
  /\ sched = [s \in AllScheds |-> SchedIdle]
  /\ worker = [w \in AllWorkers |-> WorkerIdle]
  /\ okRuns = 0
  /\ requeues = 0
  /\ skipSeen = FALSE

InitBase(entries, requests, letters) ==
  InitBuild(entries, requests, letters, Deployed)

InitWith(entries, requests) == InitBase(entries, requests, 0)

SchedulerNext ==
  \/ \E s \in Scheds : SchedulerStart(s)
  \/ \E s \in Scheds : SchedulerQuery(s)
  \/ \E s \in Scheds : SchedulerCreate(s)

WorkerNext ==
  \/ \E w \in Workers : WorkerStart(w)
  \/ \E w \in Workers : WorkerClaim(w)
  \/ \E w \in Workers : WorkerRun(w)
  \/ \E w \in Workers : WorkerFinish(w)

BotNext ==
  \/ \E msg \in inbox : BotCreate(msg)
  \/ \E page \in BotPages : BotTitle(page)

PeopleNext ==
  \/ BotNext
  \/ \E req \in inbox : ManualCreate(req)

\* One day (the clock stands still) with one daily entry, people and the
\* operator.
Init == InitWith(<<EmailDaily>>, {ChatEmailLast, HandLessonCorrect})

Next ==
  \/ SchedulerNext
  \/ WorkerNext
  \/ PeopleNext
  \/ \E i \in Ids(tasks) : OperatorRequeue(i)

Spec == Init /\ [][Next]_vars

\* One day with two daily entries and no operator.
InitDay == InitWith(<<EmailDaily, PostsDaily>>, {ChatPostsCreate, HandLessonCorrect})

NextDay ==
  \/ SchedulerNext
  \/ WorkerNext
  \/ PeopleNext

SpecDay == InitDay /\ [][NextDay]_vars

\* One daily entry over the periods of the clock.
InitPeriods == InitWith(<<EmailDaily>>, {ChatEmailLast})

NextPeriods ==
  \/ SchedulerNext
  \/ WorkerNext
  \/ BotNext
  \/ Tick

SpecPeriods == InitPeriods /\ [][NextPeriods]_vars

\* Two instances of the Worker job at once (the job started by hand while
\* launchd runs it), on tasks people have asked for.
InitRace == InitWith(<<>>, {ChatEmailLast, HandLessonCorrect})

NextRace ==
  \/ \E w \in AllWorkers : WorkerList(w)
  \/ \E w \in AllWorkers : WorkerClaim(w)
  \/ \E w \in AllWorkers : WorkerRun(w)
  \/ \E w \in AllWorkers : WorkerFinish(w)
  \/ PeopleNext

SpecRace == InitRace /\ [][NextRace]_vars

\* A task asked for in the chat, run, re-queued by the operator and run
\* again while the clock goes on.
InitRerun == InitWith(<<>>, {ChatEmailLast})

NextRerun ==
  \/ WorkerNext
  \/ BotNext
  \/ \E i \in Ids(tasks) : OperatorRequeue(i)
  \/ Tick

SpecRerun == InitRerun /\ [][NextRerun]_vars

\* Two instances of the Scheduler job at once (the job started by hand
\* while launchd runs it), over the periods of the clock.
InitOverlap == InitWith(<<EmailDaily>>, {})

NextOverlap ==
  \/ \E s \in AllScheds : SchedulerRead(s)
  \/ \E s \in AllScheds : SchedulerQuery(s)
  \/ \E s \in AllScheds : SchedulerCreate(s)
  \/ Tick

SpecOverlap == InitOverlap /\ [][NextOverlap]_vars

\* The launchd panel and its user.
InitPanel == InitWith(<<>>, {})

InitViewer == InitWith(<<>>, {})

NextViewer ==
  \/ ViewerOpen
  \/ ViewerClose
  \/ ViewerListed
  \/ \E name \in Logs : ViewerSelect(name)
  \/ ViewerReload
  \/ \E name \in Logs : ViewerLoaded(name)

SpecViewer == InitViewer /\ [][NextViewer]_vars

NextPanel ==
  \/ \E form \in Forms : PanelType(form)
  \/ \E id \in PanelJobs : PanelSelect(id)
  \/ PanelEdit
  \/ PanelReset
  \/ PanelRefresh
  \/ PanelListed
  \/ \E id \in PanelJobs : PanelDelete(id)
  \/ \E c \in panel.calls : PanelRemoved(c)
  \/ PanelSubmit
  \/ \E c \in panel.calls : PanelSaved(c)

SpecPanel == InitPanel /\ [][NextPanel]_vars

\* One call of the notifier script.
InitScript == InitWith(<<>>, {})

NextScript ==
  \/ ScriptCall
  \/ ScriptLoad
  \/ ScriptPayload
  \/ ScriptToken
  \/ ScriptWebhook
  \/ ScriptCheck

SpecScript == InitScript /\ [][NextScript]_vars

\* Messages of every kind to each bot, with or without the store
\* configured.
AnyInbox ==
  {ChatFromBot, ChatUnmentioned, ChatEmpty, ChatHelp, ChatGhostProject,
   ChatBadDomain, ChatNoProject, ChatPostsCreate, ChatEmailLast,
   ChatLanguagesRefresh, ChatLanguagesSend}

InitReplies == \E b \in Builds : InitBuild(<<>>, AnyInbox, 0, b)

NextReplies ==
  \/ \E msg \in inbox : BotIgnore(msg)
  \/ \E msg \in inbox : BotReject(msg)
  \/ \E msg \in inbox : BotCreate(msg)
  \/ \E page \in BotPages : BotTitle(page)

SpecReplies == InitReplies /\ [][NextReplies]_vars

\* Chat commands, good and bad, to either bot, with or without the store
\* configured.
ChatInbox ==
  {ChatBadDomain, ChatBadAction, ChatNoProject, ChatAllBad,
   ChatBadActionNoProject, ChatPostsCreate, ChatEmailLast,
   ChatLanguagesRefresh, ChatLanguagesSend}

InitBots == \E b \in Builds : InitBuild(<<>>, ChatInbox, 0, b)

NextBots ==
  \/ \E msg \in inbox : BotReject(msg)
  \/ \E msg \in inbox : BotCreate(msg)
  \/ \E page \in BotPages : BotTitle(page)

SpecBots == InitBots /\ [][NextBots]_vars

\* One day with a daily email_check entry and a chat request for the same,
\* while new emails arrive.
InitFan == InitBase(<<EmailDaily>>, {ChatEmailLast}, MaxMail)

NextFan ==
  \/ SchedulerNext
  \/ WorkerNext
  \/ BotNext

SpecFan == InitFan /\ [][NextFan]_vars

\* The store answers every call, and launchd keeps starting the Worker
\* (StartInterval); every command ends or runs into its timeout, so a Worker
\* that can take a step takes one.
LiveRequests == {ChatEmailLast, ChatPostsCreate, HandLessonCorrect}

InitLive == InitWith(<<>>, LiveRequests)

StoreUp == \A w \in AllWorkers : worker'[w].exit # "store_error"

NextLive ==
  \/ WorkerNext /\ StoreUp
  \/ PeopleNext

SpecLive == InitLive /\ [][NextLive]_vars /\ WF_vars(WorkerNext /\ StoreUp)

\* ================================================================ claims
\* The system tasks of a schedule entry created within period p.
SystemTasks(e, p) ==
  {i \in Ids(tasks) : /\ tasks[i].type = e.type
                      /\ tasks[i].project = e.project
                      /\ tasks[i].requested_by = "system"
                      /\ PeriodOf(tasks[i].created_at) = p}

Entries == {schedule[k] : k \in 1..Len(schedule)}

\* A step of Scheduler s / Worker w that did not end in a store error.
SchedMoved(s) ==
  sched'[s] # sched[s] /\ ~(sched'[s].pc = "idle" /\ sched'[s].exit = "store_error")

WorkerMoved(w) ==
  worker'[w] # worker[w] /\ ~(worker'[w].pc = "idle" /\ worker'[w].exit = "store_error")

\* C1: once the Scheduler has run twice, one invocation after the other,
\* within the same period (both without store error), every schedule entry
\* has exactly one system task of its type+project in that period: the first
\* invocation created it and the second skipped.
C1_SchedulerIdempotent ==
  okRuns >= 2 =>
    \A e \in Entries : Cardinality(SystemTasks(e, PeriodOf(now))) = 1

C1_Witness ==
  /\ okRuns = 2
  /\ Len(schedule) = 2
  /\ \A e \in Entries : Cardinality(SystemTasks(e, PeriodOf(now))) = 1

\* C2: however Scheduler and Worker invocations interleave within a day, an
\* entry never has more than one system task of that day: the dedup query
\* counts the earlier system task whatever its status is by then.
C2_OneSystemTaskPerDay ==
  \A e \in Entries : \A p \in 0..PeriodOf(MaxTime) :
    Cardinality(SystemTasks(e, p)) <= 1

C2_Witness ==
  /\ skipSeen
  /\ okRuns = 2
  /\ \E e \in Entries : \E i \in SystemTasks(e, PeriodOf(now)) :
       tasks[i].status \in {"done", "failed"}

\* C3: tasks not requested by system take no part in the dedup.  A dedup
\* query that finds no system task of the entry in the period goes on to
\* create, whatever discord, notion or manual tasks of that type+project
\* exist; the create appends a queued system task; no Scheduler step changes
\* or removes a task that exists; and a task written by hand is appended
\* whatever system tasks exist.
C3_NonSystemOutsideDedup ==
  [][/\ \A s \in Scheds :
          LET e == schedule[sched[s].idx]
          IN /\ (sched[s].pc = "query" /\ SchedMoved(s)
                   /\ SystemTasks(e, PeriodOf(now)) = {})
                  => sched'[s].pc = "create"
             /\ (sched[s].pc = "create" /\ SchedMoved(s))
                  => /\ Len(tasks') = Len(tasks) + 1
                     /\ tasks'[Len(tasks')].requested_by = "system"
                     /\ tasks'[Len(tasks')].status = "queued"
                     /\ tasks'[Len(tasks')].type = e.type
                     /\ tasks'[Len(tasks')].project = e.project
             /\ sched'[s] # sched[s]
                  => \A i \in Ids(tasks) : tasks'[i] = tasks[i]
     /\ \A req \in inbox \ inbox' :
          req.via \in {"manual", "notion"}
            => /\ Len(tasks') = Len(tasks) + 1
               /\ tasks'[Len(tasks')].requested_by = req.via
               /\ \A i \in Ids(tasks) : tasks'[i] = tasks[i]
    ]_vars

\* The Scheduler created its system task after a chat-created task of the
\* same type+project and period was in the store.
C3_Witness ==
  \E i \in Ids(tasks) : \E j \in Ids(tasks) :
    /\ i < j
    /\ tasks[i].requested_by = "discord"
    /\ tasks[j].requested_by = "system"
    /\ tasks[i].type = tasks[j].type
    /\ tasks[i].project = tasks[j].project
    /\ PeriodOf(tasks[i].created_at) = PeriodOf(tasks[j].created_at)

\* C4: the dedup is keyed by period.  Once a Scheduler invocation has run
\* inside the current period without store error, every schedule entry has a
\* system task created within this period, whatever earlier periods hold.
C4_EveryPeriodGetsItsTask ==
  okRuns >= 1 =>
    \A e \in Entries : SystemTasks(e, PeriodOf(now)) # {}

C4_Witness ==
  /\ okRuns >= 1
  /\ PeriodOf(now) > 0
  /\ \A e \in Entries :
       /\ SystemTasks(e, PeriodOf(now)) # {}
       /\ SystemTasks(e, PeriodOf(now) - 1) # {}

\* C5: a status changes only along queued->running, running->done and
\* running->failed, except that the operator's re-queue puts a task back to
\* queued.
C5_StatusTransitions ==
  [][\A i \in Ids(tasks) :
       tasks'[i].status # tasks[i].status =>
         \/ <<tasks[i].status, tasks'[i].status>> \in
              {<<"queued", "running">>, <<"running", "done">>, <<"running", "failed">>}
         \/ tasks'[i].status = "queued" /\ requeues' = requeues + 1
    ]_vars

C5_Witness ==
  /\ requeues = 1
  /\ \E i \in Ids(tasks) : tasks[i].status = "done" /\ tasks[i].run_count = 2
  /\ \E i \in Ids(tasks) : tasks[i].status = "failed"

\* C6: a claim raises run_count by exactly one and sets status running and
\* started_at; nothing else changes run_count; the command of a task is
\* started only while the task is running (the claim was written before);
\* and a task becomes done or failed only from running.
C6_ClaimIncrementsRunCount ==
  [][\A i \in Ids(tasks) :
       /\ (tasks[i].status # "running" /\ tasks'[i].status = "running")
            => /\ tasks'[i].run_count = tasks[i].run_count + 1
               /\ tasks'[i].started_at = now
               /\ spawned'[i] = spawned[i]
       /\ tasks'[i].run_count # tasks[i].run_count
            => tasks[i].status = "queued" /\ tasks'[i].status = "running"
       /\ spawned'[i] # spawned[i]
            => tasks[i].status = "running" /\ tasks[i].started_at # NoTime
       /\ (tasks'[i].status \in {"done", "failed"}
             /\ tasks'[i].status # tasks[i].status)
            => tasks[i].status = "running"
    ]_vars

C6_Witness ==
  \E i \in Ids(tasks) :
    /\ tasks[i].run_count = 2
    /\ tasks[i].status \in {"done", "failed"}
    /\ spawned[i] = 2

\* C7: a task whose type is not in the dispatch table never has a process
\* started for it; the Worker's final update makes it failed with a
\* non-empty last_error; and the Worker goes on with its batch or ends
\* normally.
C7_UnknownTypeFails ==
  [][/\ \A i \in Ids(tasks') :
          tasks'[i].type \notin KnownTypes =>
            /\ spawned'[i] = 0
            /\ tasks'[i].status # "done"
            /\ tasks'[i].status = "failed" => tasks'[i].last_error # ""
     /\ \A w \in Workers :
          (worker[w].pc = "final" /\ WorkerMoved(w)
             /\ tasks[Current(w).id].type \notin KnownTypes)
            => /\ worker[w].outcome = "dispatch_error"
               /\ tasks'[Current(w).id].status = "failed"
               /\ tasks'[Current(w).id].last_error # ""
               /\ \/ worker'[w].pc = "claim"
                  \/ worker'[w].pc = "idle" /\ worker'[w].exit = "ok"
    ]_vars

C7_Witness ==
  \E i \in Ids(tasks) :
    /\ tasks[i].type \notin KnownTypes
    /\ tasks[i].status = "failed"
    /\ tasks[i].last_error = "unknown_type"
    /\ spawned[i] = 0
    /\ worker[1].pc = "claim"

\* C8: when the command of a task ran into the timeout, the Worker's final
\* update makes the task failed with the timeout error and finished_at set.
C8_TimeoutFails ==
  [][\A w \in Workers :
       (worker[w].pc = "final" /\ worker[w].outcome = "timeout" /\ WorkerMoved(w))
         => /\ tasks'[Current(w).id].status = "failed"
            /\ tasks'[Current(w).id].last_error = "timeout"
            /\ tasks'[Current(w).id].finished_at = now
            /\ tasks'[Current(w).id].finished_at # NoTime
    ]_vars

C8_Witness ==
  \E i \in Ids(tasks) :
    /\ tasks[i].status = "failed"
    /\ tasks[i].last_error = "timeout"
    /\ tasks[i].finished_at # NoTime
    /\ spawned[i] = 1

\* C9: for a task of a known type the Worker runs the mapped command with
\* the project as its argument, on a task it has claimed; exit code 0 makes
\* the task done with finished_at and result set, a non-zero exit makes it
\* failed.
C9_KnownTypeEndToEnd ==
  [][\A w \in Workers :
       LET id == Current(w).id
       IN /\ (worker[w].pc = "run" /\ worker'[w].pc = "final"
                /\ tasks[id].type \in KnownTypes)
               => /\ tasks[id].status = "running"
                  /\ tasks[id].run_count = Current(w).run_count + 1
                  /\ spawned'[id] = spawned[id] + 1
                  /\ Len(worker'[w].argv) >= 2
                  /\ worker'[w].argv[1] = DispatchTable[tasks[id].type][1]
                  /\ worker'[w].argv[2] = tasks[id].project
          /\ (worker[w].pc = "final" /\ worker[w].outcome = "exit_0" /\ WorkerMoved(w))
               => /\ tasks'[id].status = "done"
                  /\ tasks'[id].finished_at = now
                  /\ tasks'[id].result # ""
          /\ (worker[w].pc = "final" /\ worker[w].outcome = "exit_nonzero"
                /\ WorkerMoved(w))
               => /\ tasks'[id].status = "failed"
                  /\ tasks'[id].finished_at = now
    ]_vars

C9_Witness ==
  \E i \in Ids(tasks) :
    /\ tasks[i].type = "email_check"
    /\ tasks[i].project = "acme"
    /\ tasks[i].status = "done"
    /\ tasks[i].run_count = 1
    /\ tasks[i].result # ""
    /\ tasks[i].finished_at # NoTime
    /\ spawned[i] = 1

\* C10: a failed task does not stop the batch: after its final update the
\* Worker claims the next task, and an invocation that ends without a store
\* error leaves every task of its batch done or failed.
C10_FailureIsolated ==
  [][\A w \in Workers :
       /\ (worker[w].pc = "final" /\ WorkerMoved(w)
             /\ worker[w].idx < Len(worker[w].batch))
            => /\ worker'[w].pc = "claim"
               /\ worker'[w].idx = worker[w].idx + 1
       /\ (worker[w].pc # "idle" /\ worker'[w].pc = "idle"
             /\ worker'[w].exit = "ok")
            => \A k \in 1..Len(worker[w].batch) :
                 tasks'[worker[w].batch[k].id].status \in {"done", "failed"}
    ]_vars

C10_Witness ==
  /\ worker[1].pc = "final"
  /\ worker[1].idx = 2
  /\ worker[1].outcome = "exit_0"
  /\ tasks[worker[1].batch[1].id].status = "failed"

\* C11: a store call that fails ends the invocation at once.  A claim or a
\* final update that did not reach the store, a list call that failed, a
\* dedup query or a create that failed: each leaves the instance idle with
\* the store error as its exit status, and the step writes no task and
\* starts no command.  An idle instance claims, runs and creates nothing:
\* its only step is the list call or the schedule read of a new invocation.
C11_StoreErrorAborts ==
  [][/\ \A w \in Workers :
          /\ (worker[w].pc \in {"claim", "final"} /\ worker'[w] # worker[w]
                /\ tasks' = tasks)
               => /\ worker'[w].pc = "idle"
                  /\ worker'[w].exit = "store_error"
                  /\ spawned' = spawned
          /\ (worker[w].pc = "idle" /\ worker'[w] # worker[w])
               => /\ tasks' = tasks
                  /\ spawned' = spawned
                  /\ (worker'[w].pc = "idle" /\ ListQueued(tasks) # <<>>)
                       => worker'[w].exit = "store_error"
          /\ (worker'[w].pc = "idle" /\ worker'[w].exit = "store_error"
                /\ worker'[w] # worker[w])
               => tasks' = tasks /\ spawned' = spawned
     /\ \A s \in Scheds :
          /\ (sched[s].pc = "create" /\ sched'[s] # sched[s] /\ tasks' = tasks)
               => sched'[s].pc = "idle" /\ sched'[s].exit = "store_error"
          /\ (sched[s].pc = "query" /\ sched'[s].pc = "idle"
                /\ SystemTasks(schedule[sched[s].idx], PeriodOf(now)) = {})
               => sched'[s].exit = "store_error"
          /\ (sched[s].pc = "idle" /\ sched'[s] # sched[s]) => tasks' = tasks
          /\ (sched'[s].pc = "idle" /\ sched'[s].exit = "store_error"
                /\ sched'[s] # sched[s])
               => tasks' = tasks
    ]_vars

\* A final update failed after the command had run: the task is left
\* running, the next task of the batch was never claimed, and a Scheduler
\* invocation ended with the store error too.
C11_Witness ==
  /\ worker[1].pc = "idle"
  /\ worker[1].exit = "store_error"
  /\ sched[1].pc = "idle"
  /\ sched[1].exit = "store_error"
  /\ \E i \in Ids(tasks) : \E j \in Ids(tasks) :
       /\ i < j
       /\ tasks[i].status = "running"
       /\ spawned[i] = 1
       /\ tasks[j].status = "queued"
       /\ tasks[j].run_count = 0

\* The ids of the batch of a Worker record.
BatchIds(rec) == {rec.batch[k].id : k \in 1..Len(rec.batch)}

\* C12: the batch of an invocation holds the queued tasks the list call
\* returned, at most NOTION_MAX_TASKS of them; the invocation claims tasks of
\* its batch only; and no Worker step changes a task outside the batch, so
\* the queued tasks beyond it keep status, run_count and timestamps.
C12_BatchBounded ==
  [][\A w \in Workers :
       /\ Len(worker'[w].batch) <= NOTION_MAX_TASKS
       /\ worker'[w].pc # "idle" => worker'[w].idx \in 1..Len(worker'[w].batch)
       /\ (worker[w].pc = "idle" /\ worker'[w] # worker[w]
             /\ worker'[w].exit # "store_error")
            => Len(worker'[w].batch) = Min(Len(ListQueued(tasks)), NOTION_MAX_TASKS)
       /\ worker'[w] # worker[w]
            => \A i \in Ids(tasks) \ BatchIds(worker[w]) :
                 /\ tasks'[i] = tasks[i]
                 /\ spawned'[i] = spawned[i]
    ]_vars

\* The list call returned more queued tasks than the batch holds.
C12_Witness ==
  /\ worker[1].pc = "claim"
  /\ worker[1].idx = 1
  /\ Len(worker[1].batch) = NOTION_MAX_TASKS
  /\ Len(ListQueued(tasks)) > NOTION_MAX_TASKS
  /\ \E i \in Ids(tasks) \ BatchIds(worker[1]) :
       /\ tasks[i].status = "queued"
       /\ tasks[i].run_count = 0
       /\ tasks[i].started_at = NoTime

\* The positions of the batch of a Worker record whose task is running in
\* the store.
RunningOf(store, rec) ==
  {k \in 1..Len(rec.batch) : store[rec.batch[k].id].status = "running"}

\* C13: within one invocation the tasks are processed one at a time.  Every
\* task of the batch before the current one is done or failed, every task
\* after it is still queued, so at most one task of the batch is running;
\* and a claim is written only when the task before it in the batch has its
\* final update.
C13_OneAtATime ==
  [][\A w \in Workers :
       /\ worker'[w].pc # "idle"
            => /\ \A k \in 1..(worker'[w].idx - 1) :
                    tasks'[worker'[w].batch[k].id].status \in {"done", "failed"}
               /\ \A k \in (worker'[w].idx + 1)..Len(worker'[w].batch) :
                    tasks'[worker'[w].batch[k].id].status = "queued"
               /\ Cardinality(RunningOf(tasks', worker'[w])) <= 1
       /\ (worker[w].pc = "claim" /\ worker'[w].pc = "run")
            => /\ RunningOf(tasks, worker[w]) = {}
               /\ RunningOf(tasks', worker'[w]) = {worker[w].idx}
               /\ worker[w].idx > 1
                    => tasks[worker[w].batch[worker[w].idx - 1].id].status
                         \in {"done", "failed"}
    ]_vars

\* The second task of a batch is running after the first one failed.
C13_Witness ==
  /\ worker[1].pc = "run"
  /\ worker[1].idx = 2
  /\ tasks[worker[1].batch[1].id].status = "failed"
  /\ tasks[worker[1].batch[2].id].status = "running"
  /\ RunningOf(tasks, worker[1]) = {2}

\* C14: the batch is the beginning of the list the store returned, in that
\* order; the invocation goes through it position by position; and the claim
\* of the task at a position is written when every task before it in the
\* batch is done or failed and no task after it has been claimed.
C14_ListOrder ==
  [][\A w \in Workers :
       /\ (worker[w].pc = "idle" /\ worker'[w].pc = "claim")
            => /\ worker'[w].idx = 1
               /\ \A k \in 1..Len(worker'[w].batch) :
                    worker'[w].batch[k].id = ListQueued(tasks)[k]
       /\ (worker[w].pc # "idle" /\ worker'[w].pc # "idle")
            => /\ worker'[w].batch = worker[w].batch
               /\ worker'[w].idx \in {worker[w].idx, worker[w].idx + 1}
       /\ (worker[w].pc = "claim" /\ worker'[w].pc = "run")
            => /\ tasks'[Current(w).id].status = "running"
               /\ \A i \in Ids(tasks) \ {Current(w).id} : tasks'[i] = tasks[i]
               /\ \A a \in 1..(worker[w].idx - 1) :
                    tasks[worker[w].batch[a].id].status \in {"done", "failed"}
               /\ \A b \in (worker[w].idx + 1)..Len(worker[w].batch) :
                    /\ tasks[worker[w].batch[b].id].status = "queued"
                    /\ tasks[worker[w].batch[b].id].run_count = worker[w].batch[b].run_count
    ]_vars

\* The second task of the list has run after the first one was done.
C14_Witness ==
  /\ worker[1].pc = "final"
  /\ worker[1].idx = 2
  /\ worker[1].batch[1].id < worker[1].batch[2].id
  /\ tasks[worker[1].batch[1].id].status = "done"
  /\ tasks[worker[1].batch[2].id].status = "running"

\* C15: with one Worker, a batch holds a task once and a command is started
\* only by the run step of the invocation that holds the task as its current
\* one, so once per invocation and never more often than the task was
\* claimed; and a task that is done or failed keeps its status, run_count
\* and started_at and gets no command started, until the operator sets it
\* back to queued.
C15_NoAutomaticRetry ==
  [][/\ \A w \in Workers :
          \A a \in 1..Len(worker'[w].batch) : \A b \in 1..Len(worker'[w].batch) :
            a # b => worker'[w].batch[a].id # worker'[w].batch[b].id
     /\ \A i \in Ids(tasks) :
          /\ spawned'[i] # spawned[i]
               => /\ spawned'[i] = spawned[i] + 1
                  /\ \E w \in Workers : /\ worker[w].pc = "run"
                                        /\ Current(w).id = i
                                        /\ worker'[w].pc = "final"
          /\ spawned'[i] <= tasks'[i].run_count
          /\ tasks[i].status \in {"done", "failed"}
               => /\ spawned'[i] = spawned[i]
                  /\ tasks'[i].run_count = tasks[i].run_count
                  /\ tasks'[i].started_at = tasks[i].started_at
                  /\ \/ tasks'[i].status = tasks[i].status
                     \/ tasks'[i].status = "queued" /\ requeues' = requeues + 1
    ]_vars

\* A later invocation has listed a task the operator re-queued and has not
\* listed a task that failed before and was left as it was.
C15_Witness ==
  /\ worker[1].pc = "claim"
  /\ worker[1].idx = 1
  /\ \E i \in Ids(tasks) \ BatchIds(worker[1]) :
       /\ tasks[i].status = "failed"
       /\ tasks[i].run_count = 1
  /\ \E k \in 1..Len(worker[1].batch) : worker[1].batch[k].run_count = 1

\* C16: with two Worker instances at once the claim narrows the race and
\* does not close it.  A list call returns queued tasks only, so a task
\* whose claim is written is not listed any more; but an instance that
\* listed the task before that claim still writes its own claim, whatever
\* the status is by then, and runs the command: a command started for a
\* task a second time is started by an instance that listed the task before
\* any claim of it was written, and the two claims leave run_count at 1.
C16_RaceRemains ==
  [][\A w \in AllWorkers :
       /\ (worker[w].pc = "idle" /\ worker'[w].pc = "claim")
            => \A k \in 1..Len(worker'[w].batch) :
                 /\ tasks[worker'[w].batch[k].id].status = "queued"
                 /\ spawned[worker'[w].batch[k].id] = 0
       /\ (worker[w].pc = "claim" /\ worker'[w].pc = "run")
            => /\ tasks'[Current(w).id].status = "running"
               /\ tasks'[Current(w).id].run_count = Current(w).run_count + 1
       /\ (worker[w].pc = "run" /\ worker'[w].pc = "final"
             /\ spawned[Current(w).id] >= 1)
            => /\ spawned'[Current(w).id] = spawned[Current(w).id] + 1
               /\ Current(w).run_count = 0
               /\ tasks[Current(w).id].run_count = 1
    ]_vars

\* Both instances listed the task while it was queued, both wrote their
\* claim and both started its command.
C16_Witness ==
  /\ worker[1].pc = "final"
  /\ worker[2].pc = "final"
  /\ Current(1).id = Current(2).id
  /\ spawned[Current(1).id] = 2
  /\ tasks[Current(1).id].status = "running"
  /\ tasks[Current(1).id].run_count = 1

\* C17: whether the notification for a task was delivered or not, the final
\* update records the outcome of the command: exit code 0 makes the task
\* done and leaves last_error as it was, a failure makes it failed with the
\* error of that failure; and the Worker goes on to the next task of the
\* batch, or ends normally after the last one.
C17_NotifierFailureIgnored ==
  [][\A w \in Workers :
       (worker[w].pc = "final" /\ WorkerMoved(w))
         => LET id == Current(w).id
                outcome == worker[w].outcome
            IN /\ outcome = "exit_0"
                    => /\ tasks'[id].status = "done"
                       /\ tasks'[id].last_error = tasks[id].last_error
               /\ outcome = "exit_nonzero"
                    => /\ tasks'[id].status = "failed"
                       /\ tasks'[id].last_error = "exit_code"
               /\ outcome = "timeout"
                    => /\ tasks'[id].status = "failed"
                       /\ tasks'[id].last_error = "timeout"
               /\ worker[w].idx < Len(worker[w].batch)
                    => /\ worker'[w].pc = "claim"
                       /\ worker'[w].idx = worker[w].idx + 1
                       /\ outcome # "dispatch_error"
                            => worker'[w].note \in {"sent", "notifier_error"}
               /\ worker[w].idx = Len(worker[w].batch)
                    => worker'[w].pc = "idle" /\ worker'[w].exit = "ok"
    ]_vars

\* The notification for the first task of the batch was not delivered; the
\* task is done, and the Worker is about to claim the next one.
C17_Witness ==
  /\ worker[1].pc = "claim"
  /\ worker[1].idx = 2
  /\ worker[1].note = "notifier_error"
  /\ tasks[worker[1].batch[1].id].status = "done"
  /\ tasks[worker[1].batch[1].id].result # ""
  /\ tasks[worker[1].batch[1].id].last_error = ""

\* C18 as stated: after its creation a task is written by the Worker only;
\* every step that changes a task that exists is a step of the Worker.
C18_OnlyWorkerWrites ==
  [][\A i \in Ids(tasks) :
       tasks'[i] # tasks[i] => \E w \in Workers : worker'[w] # worker[w]
    ]_vars

\* C18 (amended): a step that changes a task that exists is a step of the
\* Worker, which leaves the Name alone, or the title PATCH of the bot, issued
\* once for a page the bot has created, which rewrites the Name and nothing
\* else; no step of the Scheduler changes a task that exists.
C18_WorkerWritesAllButName ==
  [][\A i \in Ids(tasks) :
       /\ tasks'[i] # tasks[i]
            => \/ /\ \E w \in Workers : worker'[w] # worker[w]
                  /\ tasks'[i].name = tasks[i].name
                  /\ bot' = bot
               \/ /\ i \in BotPages
                  /\ i \notin {b.page : b \in bot'}
                  /\ tasks[i].requested_by = "discord"
                  /\ tasks'[i] = [tasks[i] EXCEPT !.name = "titled"]
                  /\ worker' = worker
       /\ (\E s \in Scheds : sched'[s] # sched[s]) => tasks'[i] = tasks[i]
    ]_vars

\* The bot has rewritten the Name of a task the Worker had claimed already.
C18_Witness ==
  \E i \in Ids(tasks) :
    /\ tasks[i].requested_by = "discord"
    /\ tasks[i].name = "titled"
    /\ tasks[i].status = "running"
    /\ tasks[i].run_count = 1
    /\ bot = {}

\* C19: no step removes a task: the store never gets shorter and the task
\* at an id stays the task that was created there; a Scheduler step leaves
\* every task that exists as it is; and a Worker step leaves type, project,
\* payload, requested_by, parent_task, created_at and the Name of every task
\* as they are, writing status, started_at, finished_at, run_count, result
\* and last_error only.
C19_NothingRemovedFrameKept ==
  [][/\ Len(tasks') >= Len(tasks)
     /\ \A i \in Ids(tasks) :
          /\ (\E s \in Scheds : sched'[s] # sched[s]) => tasks'[i] = tasks[i]
          /\ (\E w \in Workers : worker'[w] # worker[w])
               => /\ tasks'[i].type = tasks[i].type
                  /\ tasks'[i].project = tasks[i].project
                  /\ tasks'[i].payload = tasks[i].payload
                  /\ tasks'[i].requested_by = tasks[i].requested_by
                  /\ tasks'[i].parent_task = tasks[i].parent_task
                  /\ tasks'[i].created_at = tasks[i].created_at
                  /\ tasks'[i].name = tasks[i].name
                  /\ DOMAIN tasks'[i] = DOMAIN tasks[i]
    ]_vars

\* All three tasks are in the store, and the one the bot created has been
\* run to done with the fields of its creation.
C19_Witness ==
  /\ Len(tasks) = 3
  /\ \E i \in Ids(tasks) :
       /\ tasks[i].status = "done"
       /\ tasks[i].run_count >= 1
       /\ tasks[i].finished_at # NoTime
       /\ tasks[i].requested_by = "discord"
       /\ tasks[i].type = "email_check"
       /\ tasks[i].project = "acme"
       /\ tasks[i].payload = ""
       /\ tasks[i].parent_task = 0

\* C20: last_error changes only in the update that takes a running task to
\* failed, and that update leaves result alone; result changes only in the
\* update that takes a running task to done, and that update leaves
\* last_error alone.  So a failed task has a non-empty last_error, and a
\* task that was claimed once and is done has an empty one.
C20_ErrorAndResultFields ==
  [][\A i \in Ids(tasks') :
       /\ i \in Ids(tasks)
            => /\ tasks'[i].last_error # tasks[i].last_error
                    => /\ tasks[i].status = "running"
                       /\ tasks'[i].status = "failed"
                       /\ tasks'[i].result = tasks[i].result
               /\ tasks'[i].result # tasks[i].result
                    => /\ tasks[i].status = "running"
                       /\ tasks'[i].status = "done"
                       /\ tasks'[i].last_error = tasks[i].last_error
       /\ i \notin Ids(tasks)
            => tasks'[i].last_error = "" /\ tasks'[i].result = ""
       /\ tasks'[i].status = "failed" => tasks'[i].last_error # ""
       /\ tasks'[i].status = "done" => tasks'[i].result # ""
       /\ (tasks'[i].status = "done" /\ tasks'[i].run_count = 1)
            => tasks'[i].last_error = ""
    ]_vars

\* One task has failed and has its error and no result; another was
\* claimed once and is done, with its result and no error; and a task that
\* failed, was re-queued and then succeeded keeps the error of the failure.
C20_Witness ==
  /\ \E i \in Ids(tasks) :
       /\ tasks[i].status = "failed"
       /\ tasks[i].last_error # ""
       /\ tasks[i].result = ""
  /\ \E j \in Ids(tasks) :
       /\ tasks[j].status = "done"
       /\ tasks[j].run_count = 1
       /\ tasks[j].result # ""
       /\ tasks[j].last_error = ""
  /\ \E k \in Ids(tasks) :
       /\ tasks[k].status = "done"
       /\ tasks[k].run_count = 2
       /\ tasks[k].last_error # ""

\* C21: in every reachable state a task with both started_at and finished_at
\* set has finished_at >= started_at, also after the operator re-queued it
\* and the Worker claimed it again.
C21_FinishedAfterStarted ==
  \A i \in Ids(tasks) :
    (tasks[i].started_at # NoTime /\ tasks[i].finished_at # NoTime)
      => tasks[i].finished_at >= tasks[i].started_at

\* C22: when the store answers, the Worker keeps being started and finitely
\* many tasks are created, every task that is queued is eventually done or
\* failed, also one that was left out of a batch or created while no Worker
\* ran.
C22_QueuedEventuallyFinished ==
  \A i \in 1..Cardinality(LiveRequests) :
    (i \in Ids(tasks) /\ tasks[i].status = "queued")
      ~> (i \in Ids(tasks) /\ tasks[i].status \in {"done", "failed"})

\* Every request was made and every task, more of them than one batch
\* holds at the bounds as written, has been run to its end.
C22_Witness ==
  /\ inbox = {}
  /\ Len(tasks) = Cardinality(LiveRequests)
  /\ \A i \in Ids(tasks) : tasks[i].status \in {"done", "failed"}
  /\ \A i \in Ids(tasks) : tasks[i].run_count = 1
  /\ worker[1].pc = "idle"

\* C23: a task with a parent was enqueued by the successful command of its
\* parent while the parent was running: it is created queued, it is an
\* email_tasks_create task, its parent is an email_check task created before
\* it, and the parent has no parent itself; so no chain of parents is longer
\* than one.
C23_FanOutOneLevel ==
  [][/\ \A i \in Ids(tasks') :
          tasks'[i].parent_task # 0
            => /\ tasks'[i].parent_task \in 1..(i - 1)
               /\ tasks'[tasks'[i].parent_task].parent_task = 0
               /\ tasks'[tasks'[i].parent_task].type = "email_check"
               /\ tasks'[i].type = "email_tasks_create"
               /\ i \in Ids(tasks) => tasks[i].parent_task = tasks'[i].parent_task
     /\ (Len(tasks') > Len(tasks) /\ tasks'[Len(tasks')].parent_task # 0)
          => /\ tasks'[Len(tasks')].status = "queued"
             /\ tasks'[Len(tasks')].run_count = 0
             /\ tasks[tasks'[Len(tasks')].parent_task].status = "running"
             /\ \E w \in Workers :
                  /\ worker[w].pc = "run"
                  /\ Current(w).id = tasks'[Len(tasks')].parent_task
                  /\ worker'[w].outcome = "exit_0"
    ]_vars

\* An enqueued task has itself been run to done while more new items were
\* there to be handed on, and no task has it as its parent.
C23_Witness ==
  \E i \in Ids(tasks) :
    /\ tasks[i].parent_task # 0
    /\ tasks[i].status = "done"
    /\ spawned[i] = 1
    /\ mail >= 1
    /\ \A j \in Ids(tasks) : tasks[j].parent_task # i

\* What the handling of a chat command makes of it, for the claims below.
BadDomain(b, msg) ==
  msg.domain \notin
    (IF b.version = "part_004" THEN allowedDomainsLanguages \cup {"", "help"}
     ELSE allowedDomains \cup {""})

BadAction(b, msg) ==
  IF b.version = "part_004"
  THEN /\ msg.domain \in allowedDomainsLanguages
       /\ msg.action \notin allowedActionsLanguages[msg.domain]
  ELSE /\ msg.domain \in allowedDomains
       /\ msg.action \notin allowedActions[msg.domain]

NoProject(b, msg) ==
  /\ msg.domain # ""
  /\ ~BadDomain(b, msg)
  /\ ~BadAction(b, msg)
  /\ msg.project = ""

RejectedWith(msg, reply) ==
  /\ replies' = replies \cup {<<msg, reply, 1>>}
  /\ <<msg, reply, 1>> \notin replies
  /\ tasks' = tasks
  /\ bot' = bot

\* C24 as stated: a command with an invalid domain, with an action not
\* allowed for its domain, or without a project is answered by the one
\* rejection of the first of these checks that fails, and nothing is
\* created.
C24_EachRejected ==
  [][\A msg \in inbox \ inbox' :
       /\ BadDomain(build, msg) => RejectedWith(msg, "invalid_domain")
       /\ BadAction(build, msg) => RejectedWith(msg, "invalid_action")
       /\ NoProject(build, msg) => RejectedWith(msg, "missing_project")
    ]_vars

\* C24 (amended): a command with an invalid domain, with an action not
\* allowed for its domain, or, in a domain other than languages, without a
\* project is answered by the one rejection of the first of these checks
\* that fails, and nothing is created; a command of the languages domain
\* takes no project and is not rejected for the lack of one.
C24_EachRejectedButLanguages ==
  [][\A msg \in inbox \ inbox' :
       /\ BadDomain(build, msg) => RejectedWith(msg, "invalid_domain")
       /\ BadAction(build, msg) => RejectedWith(msg, "invalid_action")
       /\ (NoProject(build, msg) /\ msg.domain # "languages")
            => RejectedWith(msg, "missing_project")
       /\ (NoProject(build, msg) /\ msg.domain = "languages")
            => \A r \in replies' : ~(r[1] = msg /\ r[2] = "missing_project")
    ]_vars

\* The bot that knows the languages domain has sent each of the three
\* rejections, each for a command that fails the later checks too, and has
\* created the one task of "languages refresh", which names no project.
C24_Witness ==
  /\ build.version = "part_004"
  /\ {<<ChatAllBad, "invalid_domain", 1>>,
      <<ChatBadActionNoProject, "invalid_action", 1>>,
      <<ChatNoProject, "missing_project", 1>>,
      <<ChatLanguagesRefresh, "created", 1>>} \subseteq replies
  /\ Len(tasks) = 1
  /\ tasks[1].type = "content_refresh"

InTable(msg) ==
  /\ msg.domain \in DOMAIN typeMapLanguages
  /\ msg.action \in DOMAIN typeMapLanguages[msg.domain]

\* C25: a step of the bot creates at most one task, for the one command it
\* handles; the task is queued, requested by discord, has never run, and has
\* the type the table gives for the domain and action of the command; a
\* command whose domain and action are not in the table creates nothing, and
\* there are never more tasks than handled commands.
C25_CreatedFromTable ==
  [][/\ Len(tasks') <= Len(tasks) + 1
     /\ Len(tasks') <= Cardinality(ChatInbox \ inbox')
     /\ Len(tasks') > Len(tasks)
          => \E msg \in inbox :
               /\ inbox' = inbox \ {msg}
               /\ InTable(msg)
               /\ tasks' = Append(tasks, tasks'[Len(tasks')])
               /\ tasks'[Len(tasks')].type = typeMapLanguages[msg.domain][msg.action]
               /\ tasks'[Len(tasks')].status = "queued"
               /\ tasks'[Len(tasks')].requested_by = "discord"
               /\ tasks'[Len(tasks')].run_count = 0
     /\ \A msg \in inbox \ inbox' : ~InTable(msg) => tasks' = tasks
    ]_vars

\* The bot has created a task of each type of the table, and has answered
\* every command, those outside the table too.
C25_Witness ==
  /\ inbox = {}
  /\ Len(tasks) = 4
  /\ {tasks[i].type : i \in Ids(tasks)} =
       {"posts_create", "email_check", "content_refresh", "lesson_send"}
  /\ \A i \in Ids(tasks) : tasks[i].status = "queued"

\* C26: a call of the notifier script makes at most one request; with the
\* token set the request goes to the channel and none goes to the webhook;
\* the script exits 0 exactly when it made its request and the answer was
\* 2xx; it exits non-zero without a request when the env file, the channel
\* id or both credentials are missing, and non-zero when the answer is not
\* 2xx.
C26_OneRequestNoFallback ==
  script.pc # "idle" =>
    /\ Len(script.requests) <= 1
    /\ script.token => \A k \in 1..Len(script.requests) : script.requests[k] = "channel"
    /\ script.pc = "exited" =>
         /\ script.exit = 0 <=> (Len(script.requests) = 1 /\ Is2xx(script.code))
         /\ (~script.env \/ ~script.channel \/ (~script.token /\ ~script.webhook))
              => (script.exit # 0 /\ script.requests = <<>>)
         /\ (script.token /\ script.requests # <<>>)
              => script.requests = <<"channel">>

\* The script has the token and a webhook, its post to the channel was
\* answered with an error, and it has exited.
C26_Witness ==
  /\ script.pc = "exited"
  /\ script.token /\ script.webhook
  /\ script.requests = <<"channel">>
  /\ script.code = 500
  /\ script.exit = 1

Renamed == {i \in Ids(tasks) : tasks'[i].name # tasks[i].name}

\* C27: a page is noted for its rewrite only by the step that created it,
\* under its original name; a Name changes only in the rewrite of a noted
\* page still under its original name, the page is noted no longer, and the
\* Name is all that changes in the store, whatever the Worker has made of
\* the task since; every rewrite, failed or not, sends the success reply,
\* and a failed one leaves the store as it was.
C27_TitleOnceNameOnly ==
  [][/\ \A i \in {b.page : b \in bot'} \ BotPages :
          /\ Len(tasks) = i - 1
          /\ tasks' = Append(tasks, tasks'[i])
          /\ tasks'[i].name = "plain"
          /\ tasks'[i].requested_by = "discord"
     /\ Cardinality(Renamed) <= 1
     /\ \A i \in Renamed :
          /\ i \in BotPages
          /\ i \notin {b.page : b \in bot'}
          /\ tasks[i].name = "plain"
          /\ tasks' = [tasks EXCEPT ![i].name = tasks'[i].name]
     /\ \A b \in bot \ bot' :
          /\ replies' = replies \cup {<<b.msg, "created", 1>>}
          /\ Renamed = {} => tasks' = tasks
    ]_vars

\* A Worker has claimed a page between its create and its rewrite.
C27_Witness ==
  \E i \in BotPages :
    /\ tasks[i].status = "running"
    /\ tasks[i].run_count = 1
    /\ tasks[i].name = "plain"

\* C28: the create of an invocation that found no task in its query does
\* not look again: when the store accepts it, it adds a system task for the
\* entry, also when another invocation has created one for the same entry
\* and period since the query; a period then holds up to one system task of
\* an entry for each overlapping invocation, and never more.
C28_CreateAfterStaleQuery ==
  [][/\ \A s \in AllScheds :
          (sched[s].pc = "create" /\ SchedMoved(s))
            => /\ Len(tasks') = Len(tasks) + 1
               /\ tasks'[Len(tasks')].type = schedule[sched[s].idx].type
               /\ tasks'[Len(tasks')].project = schedule[sched[s].idx].project
               /\ tasks'[Len(tasks')].requested_by = "system"
               /\ tasks'[Len(tasks')].status = "queued"
               /\ tasks'[Len(tasks')].created_at = now
     /\ \A e \in Entries : \A p \in 0..PeriodOf(MaxTime) :
          Cardinality({i \in Ids(tasks') : /\ tasks'[i].type = e.type
                                           /\ tasks'[i].project = e.project
                                           /\ tasks'[i].requested_by = "system"
                                           /\ PeriodOf(tasks'[i].created_at) = p})
            <= Cardinality(AllScheds)
    ]_vars

\* Two invocations that overlapped have both ended well, and the store
\* holds two system tasks of the one entry, created in the same period.
C28_Witness ==
  /\ \A s \in AllScheds : sched[s].pc = "idle" /\ sched[s].exit = "ok"
  /\ Len(tasks) = 2
  /\ \E e \in Entries : SystemTasks(e, PeriodOf(now)) = {1, 2}

\* C29: every claim update raises the stored run_count of its task by
\* exactly 1, so that after k claims run_count is its first value plus k,
\* also with two Worker instances at once.
C29_RunCountCountsClaims ==
  [][\A w \in AllWorkers :
       (worker[w].pc = "claim" /\ worker'[w].pc = "run")
         => tasks'[Current(w).id].run_count = tasks[Current(w).id].run_count + 1
    ]_vars

\* C30: a task that is running and that no invocation holds (the invocation
\* that claimed it ended before its final update) is in the batch of no
\* invocation that lists after that, no command is started for it, and no
\* field the Worker writes changes, until the operator sets it back to
\* queued.
C30_StuckRunningStays ==
  [][\A i \in Ids(tasks) :
       (tasks[i].status = "running" /\ ~HeldByWorker(i))
         => /\ \A w \in AllWorkers :
                 (worker[w].pc = "idle" /\ worker'[w].pc = "claim")
                   => \A k \in 1..Len(worker'[w].batch) : worker'[w].batch[k].id # i
            /\ spawned'[i] = spawned[i]
            /\ \/ tasks'[i].status = "running"
               \/ tasks'[i].status = "queued" /\ requeues' = requeues + 1
            /\ \A f \in {"run_count", "started_at", "finished_at", "last_error", "result"} :
                 tasks'[i][f] = tasks[i][f]
    ]_vars

\* An invocation ended before the final update of its task, and a later
\* invocation has claimed another task while the first is still running.
C30_Witness ==
  \E i \in Ids(tasks) : \E w \in AllWorkers :
    /\ tasks[i].status = "running"
    /\ ~HeldByWorker(i)
    /\ worker[w].pc = "run"
    /\ Current(w).id > i
    /\ tasks[Current(w).id].status = "running"

\* C31: the batch of an invocation is what its list call returned: it
\* holds tasks that were in the store and queued at that call, and it does
\* not change while the invocation runs; a task created while an invocation
\* runs is queued and outside its batch; and while an invocation runs, a
\* queued task outside its batch stays queued.
C31_BatchIsSnapshot ==
  [][\A w \in Workers :
       /\ (worker[w].pc = "idle" /\ worker'[w].pc # "idle")
            => \A i \in BatchIds(worker'[w]) :
                 i \in Ids(tasks) /\ tasks[i].status = "queued"
       /\ (worker[w].pc # "idle" /\ worker'[w].pc # "idle")
            => worker'[w].batch = worker[w].batch
       /\ worker[w].pc # "idle"
            => /\ \A i \in Ids(tasks') \ Ids(tasks) :
                    /\ tasks'[i].status = "queued"
                    /\ i \notin BatchIds(worker[w])
                    /\ i \notin BatchIds(worker'[w])
               /\ \A i \in Ids(tasks) \ BatchIds(worker[w]) :
                    tasks[i].status = "queued"
                      => /\ tasks'[i].status = "queued"
                         /\ tasks'[i].run_count = tasks[i].run_count
                         /\ spawned'[i] = spawned[i]
    ]_vars

\* The invocation is at the last task of its batch, and the task that the
\* command of a task of the batch enqueued is queued outside the batch.
C31_Witness ==
  \E w \in Workers : \E i \in Ids(tasks) :
    /\ worker[w].pc = "final"
    /\ worker[w].idx = Len(worker[w].batch)
    /\ tasks[i].parent_task \in BatchIds(worker[w])
    /\ i \notin BatchIds(worker[w])
    /\ tasks[i].status = "queued"

\* The replies that tell the user that the task was created.
SaysCreated(reply) == reply \in {"created", "created_early", "enqueued"}

\* C32: in every version of the bot a reply that says the task was created
\* is sent only for a message whose create has returned the page: in the
\* step that creates the task, or in the rewrite of the Name of the page
\* created for it; a create that fails or throws sends no such reply.
C32_CreatedReplyAfterCreate ==
  [][\A r \in replies' \ replies :
       SaysCreated(r[2])
         => \/ /\ Len(tasks') = Len(tasks) + 1
               /\ r[1] \in inbox \ inbox'
            \/ \E b \in bot \ bot' : b.msg = r[1] /\ b.page \in Ids(tasks)
    ]_vars

RepliesTo(sent, msg) == {r \in sent : r[1] = msg}

\* C33: in the current handlers, a message written by a bot or not
\* mentioning the bot is dropped with no reply, no task and no page noted;
\* every other message has, once its handler has returned, exactly one
\* reply, whatever the checks and the store made of it, and none before.
C33_OneReplyPerMention ==
  [][build.version \in {"index", "part_004"}
       => /\ \A msg \in inbox \ inbox' :
               (msg.author = "bot" \/ ~msg.mentioned)
                 => /\ replies' = replies
                    /\ tasks' = tasks
                    /\ bot' = bot
          /\ \A msg \in AnyInbox :
               Cardinality(RepliesTo(replies', msg)) =
                 IF /\ msg \notin inbox'
                    /\ msg.author # "bot" /\ msg.mentioned
                    /\ \A b \in bot' : b.msg # msg
                 THEN 1 ELSE 0
    ]_vars

\* The handler of bots/discord-cmd-bot has returned for every message: two
\* got no reply, each of the others got one, and tasks were created.
C33_Witness ==
  /\ build = [version |-> "index", notion |-> TRUE]
  /\ inbox = {}
  /\ bot = {}
  /\ Len(tasks) = 2
  /\ Cardinality(replies) = Cardinality(AnyInbox) - 2
  /\ RepliesTo(replies, ChatFromBot) = {}
  /\ RepliesTo(replies, ChatUnmentioned) = {}

\* A command of the bot with project checks that passes the checks of its
\* domain, action and project name.
WellFormed(msg) ==
  /\ msg.author # "bot" /\ msg.mentioned
  /\ msg.domain \in allowedDomainsLanguages
  /\ msg.action \in allowedActionsLanguages[msg.domain]
  /\ msg.domain # "languages" => msg.project # ""

\* C34: in the bot with project checks, a posts or email command for a
\* project with no folder gets the reply of that check and creates nothing,
\* with or without the store configured; a command that passes the checks
\* while the store is not configured gets the reply of the configuration
\* check and creates nothing; and a languages command is never answered
\* with the reply of the project check.
C34_ProjectAndConfigChecks ==
  [][build.version = "part_004"
       => \A msg \in inbox \ inbox' :
            WellFormed(msg)
              => /\ (msg.domain # "languages" /\ msg.project \notin Projects)
                      => /\ replies' = replies \cup {<<msg, "unknown_project", 1>>}
                         /\ tasks' = tasks
                         /\ bot' = bot
                 /\ (~build.notion
                       /\ (msg.domain # "languages" => msg.project \in Projects))
                      => /\ replies' = replies \cup {<<msg, "not_configured", 1>>}
                         /\ tasks' = tasks
                         /\ bot' = bot
                 /\ msg.domain = "languages"
                      => \A r \in replies' \ replies : r[2] # "unknown_project"
                 /\ (msg.domain = "languages" /\ build.notion /\ msg.project # "")
                      => \E r \in replies' \ replies :
                           r[2] \in {"created", "create_failed", "create_error"}
    ]_vars

\* Without the store configured, the bot with project checks has rejected
\* the command for a project with no folder, the valid posts command, and
\* the languages command, whose student is no project folder either.
C34_Witness ==
  /\ build = [version |-> "part_004", notion |-> FALSE]
  /\ {<<ChatGhostProject, "unknown_project", 1>>,
      <<ChatPostsCreate, "not_configured", 1>>,
      <<ChatLanguagesSend, "not_configured", 1>>} \subseteq replies
  /\ tasks = <<>>

\* The alerts of a submit that sends nothing.
SubmitAlerts == {"label", "filename", "weekday", "time", "exists"}

SaveCalls(calls) == {c \in calls : c.op \in {"create", "update"}}

\* The form is valid, as the claim words it.
FormValid(form) ==
  /\ form.label # ""
  /\ endsWith(form.filename, ".plist")
  /\ form.scheduleType = "weekly"
       => (form.scheduleDays # {} /\ form.scheduleValue # "")

\* C35: a submit that ends in an alert of the form sends nothing and
\* leaves the jobs, editingId and the form as they were; a create or an
\* update is sent only for a valid form, a create only while nothing is
\* being edited and for a label that is not in state.jobs, an update for
\* the job being edited; when the call fails, editingId and the form are
\* kept and no refresh is started; when it succeeds, editingId is null, the
\* form is blank and a refresh is under way; and editingId goes to null
\* only so, or by the reset of the form.
C35_SubmitGuarded ==
  [][/\ panel'.alert \in SubmitAlerts
          => /\ panel'.calls = panel.calls
             /\ panel'.jobs = panel.jobs
             /\ panel'.editingId = panel.editingId
             /\ panel'.form = panel.form
             /\ launchd' = launchd
             /\ ~FormValid(panel.form)
                  \/ (panel.editingId = "null" /\ panel.form.label \in panel.jobs)
     /\ \A c \in SaveCalls(panel'.calls) \ panel.calls :
          /\ FormValid(panel.form)
          /\ panel'.jobs = panel.jobs
          /\ panel'.editingId = panel.editingId
          /\ c.op = "create"
               => /\ panel.editingId = "null"
                  /\ c.id = panel.form.label
                  /\ c.id \notin panel.jobs
          /\ c.op = "update" => c.id = panel.editingId
     /\ \A c \in SaveCalls(panel.calls) \ panel'.calls :
          IF panel'.alert = "save_failed"
          THEN /\ panel'.editingId = panel.editingId
               /\ panel'.form = panel.form
               /\ panel'.jobs = panel.jobs
               /\ launchd' = launchd
               /\ panel'.calls = panel.calls \ {c}
          ELSE /\ panel'.editingId = "null"
               /\ panel'.form = FormBlank
               /\ ListCall \in panel'.calls
     /\ (panel.editingId # "null" /\ panel'.editingId = "null")
          => \/ \E c \in SaveCalls(panel.calls) \ panel'.calls :
                  panel'.alert # "save_failed"
             \/ panel'.calls = panel.calls /\ panel'.form = FormBlank
    ]_vars

\* The update of the job being edited has failed: the job is still being
\* edited, its form is as it was sent, and no refresh is under way.
C35_Witness ==
  /\ panel.alert = "save_failed"
  /\ panel.editingId = "a"
  /\ panel.form = FormOf("a")
  /\ panel.calls = {}

\* C36: the job being edited is a job of state.jobs, and no update is
\* under way for a job that is not.
C36_EditingIdInJobs ==
  /\ panel.editingId # "null" => panel.editingId \in panel.jobs
  /\ \A c \in panel.calls : c.op = "update" => c.id \in panel.jobs

\* C37: a remove is sent only for a job of state.jobs that the user has
\* confirmed; a remove that fails leaves the selection and the list alone
\* and starts no refresh; one that succeeds clears the selection if it was
\* the removed job, and starts the reload of the list.
C37_RemoveGuarded ==
  [][/\ \A c \in panel'.calls \ panel.calls :
          c.op = "remove" => c.id \in panel.jobs /\ panel'.asked = "yes"
     /\ panel'.asked = "no" =>
          panel'.calls = panel.calls /\ launchd' = launchd
     /\ \A c \in panel.calls \ panel'.calls :
          c.op = "remove" =>
            IF panel'.alert = "remove_failed"
            THEN /\ panel'.selectedId = panel.selectedId
                 /\ panel'.jobs = panel.jobs
                 /\ panel'.calls = panel.calls \ {c}
                 /\ launchd' = launchd
            ELSE /\ panel'.selectedId =
                      IF panel.selectedId = c.id THEN "null" ELSE panel.selectedId
                 /\ ListCall \in panel'.calls
                 /\ c.id \notin launchd']_vars

\* Job a has been removed while job b was selected: b is still selected
\* and the reload of the list is under way.
C37_Witness ==
  /\ launchd = {"b"}
  /\ panel.selectedId = "b"
  /\ "a" \in panel.jobs
  /\ ListCall \in panel.calls

\* C38: once no request of the log viewer is under way, a log content
\* shown is the content of the log named by state.currentLog, and the title
\* names that log.
C38_ContentOfCurrentLog ==
  (\A l \in Logs : viewer.pending[l] = 0) =>
    /\ viewer.content \in Logs => viewer.content = viewer.currentLog
    /\ viewer.currentLog # "null" => viewer.title = viewer.currentLog

====
